---- MODULE Spec2Model ----
(***************************************************************************)
(* Session store of Phantom IRC: the live backend (PhantomIRCClient,       *)
(* src/src/lib/irc-client.js) and the simulated backend (MockIRCClient,    *)
(* src/src/lib/mock-irc.js).  One behaviour follows one session object of  *)
(* one backend, chosen in Init.  Timers of the simulated backend and       *)
(* events of the live transport are steps of their own.                    *)
(***************************************************************************)
EXTENDS Integers, Sequences, FiniteSets, TLC

(* ------------------------------ bounds --------------------------------- *)
MaxConnects == 2      \* connect() calls in one behaviour
MaxTimers == 2        \* timers pending at once (simulated backend)
MaxSends == 1         \* sendMessage calls accepted in one behaviour
MaxInbound == 1       \* inbound or simulated messages appended in one behaviour

(* ------------------------------ inputs --------------------------------- *)
Channels == {"#phantom-demo", "#test"}
Texts == {"hello"}
ConfigNicks == {"me"}
Handlers == {"h1", "h2"}
OtherNicks == {"alice"}
MsgTypes == {"privmsg"}
UserLists == {<<"alice", "me">>}

NULL == "null"
UNDEFINED == "undefined"
NotConnectedError == "Not connected to IRC server"

CallbackKinds == {"onConnect", "onMessage", "onJoin", "onPart", "onError", "onUserList"}
(* event names passed to on() *)
MockOnEvents == {"onConnect", "onMessage", "message", "bogus"}
LiveOnEvents == {"onConnect", "onError", "message"}
(* outcomes of Math.floor(Math.random() * n) explored, as 1-based indices *)
RandomDraws == {1, 2}

(* ------------------------------ helpers -------------------------------- *)
EmptyMap == [x \in {} |-> << >>]
Put(m, k, v) == [x \in (DOMAIN m) \cup {k} |-> IF x = k THEN v ELSE m[x]]
Includes(s, x) == \E i \in 1..Len(s) : s[i] = x
RECURSIVE Filter(_, _)
Filter(s, x) ==
  IF s = << >> THEN << >>
  ELSE IF Head(s) = x THEN Filter(Tail(s), x) ELSE <<Head(s)>> \o Filter(Tail(s), x)
IndexOf(s, x) == IF Includes(s, x) THEN CHOOSE i \in 1..Len(s) : s[i] = x /\ \A j \in 1..(i-1) : s[j] # x ELSE 0
Splice(s, i) == [j \in 1..(Len(s)-1) |-> IF j < i THEN s[j] ELSE s[j+1]]
Field(r, f) == IF f \in DOMAIN r THEN r[f] ELSE UNDEFINED

(* config.nick || 'PhantomUser' *)
NickOf(nick) == IF nick = "" THEN "PhantomUser" ELSE nick

(* --------------------- tables of the simulated backend ----------------- *)
MockEntry(u, t, ts) == [user |-> u, text |-> t, timestamp |-> ts]

getMockChannels(currentUser) ==
  << [name |-> "#phantom-demo", users |-> <<"alice", "bob", "charlie", "diana", "eve", currentUser>>],
     [name |-> "#dev-chat", users |-> <<"dev1", "dev2", "techie", "coder", currentUser>>],
     [name |-> "#random", users |-> <<"user1", "user2", "user3", currentUser>>] >>

getMockMessages(channel) ==
  IF channel = "#phantom-demo" THEN
    << MockEntry("alice", "Hey everyone! Welcome to Phantom IRC!", "now-3600000"),
       MockEntry("bob", "This is pretty cool, how does the AI spam filter work?", "now-3500000"),
       MockEntry("alice", "It uses Claude to analyze messages in real-time before sending", "now-3400000"),
       MockEntry("charlie", "Check out this link: https://example.com/cool-project", "now-3300000"),
       MockEntry("diana", "Can someone help me with IRC commands?", "now-3200000"),
       MockEntry("eve", "Sure! Type /join #channel to join a channel", "now-3100000"),
       MockEntry("bob", "The AI summary feature is really handy for catching up", "now-3000000"),
       MockEntry("alice", "Yeah, especially for busy channels with lots of activity", "now-2900000"),
       MockEntry("charlie", "Is this open source?", "now-2800000"),
       MockEntry("diana", "Built for Kiroween 2024 hackathon!", "now-2700000") >>
  ELSE IF channel = "#dev-chat" THEN
    << MockEntry("dev1", "Working on a new React component", "now-7200000"),
       MockEntry("dev2", "Nice! Are you using hooks?", "now-7100000"),
       MockEntry("techie", "Hooks are the way to go these days", "now-7000000"),
       MockEntry("coder", "Anyone tried the new Vite features?", "now-6900000"),
       MockEntry("dev1", "Vite is blazing fast compared to webpack", "now-6800000"),
       MockEntry("dev2", "The HMR is incredible", "now-6700000"),
       MockEntry("techie", "What are you all building?", "now-6600000"),
       MockEntry("coder", "Working on an AI-powered IRC client", "now-6500000") >>
  ELSE IF channel = "#random" THEN
    << MockEntry("user1", "Good morning everyone!", "now-10800000"),
       MockEntry("user2", "Morning! How's everyone doing?", "now-10700000"),
       MockEntry("user3", "Pretty good, just having coffee", "now-10600000"),
       MockEntry("user1", "Coffee is life (hot beverage)", "now-10500000") >>
  ELSE << >>

randomMessages(channel) ==
  IF channel = "#phantom-demo" THEN
    << [user |-> "alice", text |-> "The UI looks really polished!"],
       [user |-> "bob", text |-> "How long did it take to build this?"],
       [user |-> "charlie", text |-> "The dark theme is nice on the eyes"],
       [user |-> "diana", text |-> "Can this connect to real IRC servers?"],
       [user |-> "eve", text |-> "The Building Protocol validation was smart"],
       [user |-> "alice", text |-> "Testing early saved a lot of time"],
       [user |-> "bob", text |-> "Anyone else excited about AI features?"],
       [user |-> "charlie", text |-> "The spam filter is a game changer"] >>
  ELSE IF channel = "#dev-chat" THEN
    << [user |-> "dev1", text |-> "Just pushed a new commit"],
       [user |-> "dev2", text |-> "Running tests now..."],
       [user |-> "techie", text |-> "Anyone need help debugging?"],
       [user |-> "coder", text |-> "This architecture is clean"] >>
  ELSE IF channel = "#random" THEN
    << [user |-> "user1", text |-> "Anyone here?"],
       [user |-> "user2", text |-> "Yeah, what's up?"],
       [user |-> "user3", text |-> "Just lurking..."] >>
  ELSE << >>

replies ==
  << [user |-> "alice", text |-> "Good point!"],
     [user |-> "bob", text |-> "I agree"],
     [user |-> "charlie", text |-> "Interesting..."],
     [user |-> "diana", text |-> "Thanks for sharing!"],
     [user |-> "eve", text |-> "(thumbs up)"] >>

RandomIdx(n) == {i \in RandomDraws : i <= n}

(* ------------------------------- state --------------------------------- *)
VARIABLES
  backend,        \* "live" (PhantomIRCClient) or "mock" (MockIRCClient)
  connected,      \* this.connected
  channels,       \* this.channels, an array
  messages,       \* this.messages, channel -> array; absent key = no log
  users,          \* this.users, channel -> array (or UNDEFINED value)
  callbacks,      \* this.callbacks, kind -> handler or NULL
  client,         \* live: this.client: NULL, or the state of that IRC.Client
  stale,          \* live: earlier IRC.Client objects that were never quit, by state
  clientNick,     \* live: this.client.user.nick
  currentUser,    \* mock: this.currentUser
  messageInterval,\* mock: this.messageInterval
  timers,         \* mock: pending setTimeout / running setInterval, a bag
  nextId,         \* number of connect() calls so far
  last,           \* the step just taken: operation, channel, what it raised
  emitted,        \* handler invocations made by the step just taken
  parted,         \* mock: channels parted, with no joinChannel or sendMessage on them since
  explicitDisc,   \* disconnect() was called after the last connect()
  sends,          \* sendMessage calls accepted so far
  inbound,        \* inbound or simulated messages appended so far
  aiService,      \* aiService.current: a PhantomAI object, if exists
  aiCall,         \* the feature call of PhantomAI in progress, if any
  aiResult,       \* what the last finished feature call returned
  providerCalls,  \* this.client.messages.create calls made so far
  app,            \* App: the React state handleSendMessage reads
  sendTasks,      \* App: the handleSendMessage invocations so far, in call order
  storeSends      \* App: calls of ircClient.current.sendMessage, in call order

vars == <<backend, connected, channels, messages, users, callbacks, client,
          stale, clientNick, currentUser, messageInterval, timers, nextId,
          last, emitted, parted, explicitDisc, sends, inbound, aiService,
          aiCall, aiResult, providerCalls, app, sendTasks, storeSends>>

sessionVars == <<connected, channels, messages, users>>
liveVars == <<client, stale, clientNick>>
mockVars == <<currentUser, messageInterval, timers>>
aiVars == <<aiService, aiCall, aiResult, providerCalls>>
appVars == <<app, sendTasks, storeSends>>
storeVars == <<backend, sessionVars, callbacks, liveVars, mockVars, nextId, last,
               emitted, parted, explicitDisc, sends, inbound>>

Timer(kind, ch, id) == [kind |-> kind, ch |-> ch, id |-> id]
AllTimers ==
  {Timer("connect", "", 0), Timer("autojoin", "", 0)}
    \cup {Timer(k, c, 0) : k \in {"join", "reply", "interval"}, c \in Channels}
RECURSIVE SumOver(_, _)
SumOver(f, S) == IF S = {} THEN 0 ELSE LET x == CHOOSE y \in S : TRUE IN f[x] + SumOver(f, S \ {x})
Pending == SumOver(timers, AllTimers)
Schedule(tm, t) == [tm EXCEPT ![t] = @ + 1]
Cancel(tm, t) == [tm EXCEPT ![t] = @ - 1]

Step(op, ch, raised) == [op |-> op, ch |-> ch, raised |-> raised]
(* a call of on(event, callback) *)
OnStep(event, callback) ==
  [op |-> "on", ch |-> "", raised |-> "none", event |-> event, handler |-> callback]
Call(kind, arg) == [kind |-> kind, handler |-> callbacks[kind], arg |-> arg]
(* if (this.callbacks.k) this.callbacks.k(arg) *)
Invoke(kind, arg) == IF callbacks[kind] # NULL THEN <<Call(kind, arg)>> ELSE << >>

(* getMessages(channel) / getUsers(channel): this.x[channel] || [] *)
getMessages(m, channel) == IF channel \in DOMAIN m THEN m[channel] ELSE << >>
getUsers(u, channel) == IF channel \in DOMAIN u THEN u[channel] ELSE << >>

Init ==
  /\ backend \in {"live", "mock"}
  /\ connected = FALSE
  /\ channels = << >>
  /\ messages = EmptyMap
  /\ users = EmptyMap
  /\ callbacks = [k \in CallbackKinds |-> NULL]
  /\ client = NULL
  /\ stale = [connecting |-> 0, registered |-> 0]
  /\ clientNick = ""
  /\ currentUser = "PhantomUser"
  /\ messageInterval = NULL
  /\ timers = [t \in AllTimers |-> 0]
  /\ nextId = 0
  /\ last = Step("new", "", "none")
  /\ emitted = << >>
  /\ parted = {}
  /\ explicitDisc = FALSE
  /\ sends = 0
  /\ inbound = 0
  /\ aiService = [exists |-> FALSE, apiKey |-> << >>, client |-> NULL, enabled |-> FALSE]
  /\ aiCall = [feature |-> "none"]
  /\ aiResult = [kind |-> "none"]
  /\ providerCalls = 0
  /\ app = [ircClient |-> FALSE, nick |-> << >>, connected |-> FALSE,
            channels |-> << >>, currentChannel |-> NULL, aiEnabled |-> FALSE,
            seen |-> [channels |-> << >>, currentChannel |-> NULL]]
  /\ sendTasks = << >>
  /\ storeSends = << >>


(* ===================== simulated backend: MockIRCClient ================ *)

(* on(event, callback): the switch and its aliases *)
MockCallbackOf(event) ==
  CASE event \in {"registered", "onConnect"} -> "onConnect"
    [] event \in {"message", "onMessage"} -> "onMessage"
    [] event \in {"join", "onJoin"} -> "onJoin"
    [] event \in {"part", "onPart"} -> "onPart"
    [] event \in {"error", "onError"} -> "onError"
    [] event \in {"userlist", "onUserList"} -> "onUserList"
    [] OTHER -> NULL

Mock_on_keepFirst(event, callback) ==
  /\ backend = "mock"
  /\ UNCHANGED <<aiVars, appVars>>
  /\ callbacks' = IF MockCallbackOf(event) # NULL /\ callbacks[MockCallbackOf(event)] = NULL
                  THEN [callbacks EXCEPT ![MockCallbackOf(event)] = callback]
                  ELSE callbacks
  /\ last' = OnStep(event, callback)
  /\ emitted' = << >>
  /\ UNCHANGED <<backend, sessionVars, liveVars, mockVars, nextId, parted,
                 explicitDisc, sends, inbound>>

Mock_on(event, callback) ==
  /\ backend = "mock"
  /\ UNCHANGED <<aiVars, appVars>>
  /\ callbacks' = IF MockCallbackOf(event) # NULL
                  THEN [callbacks EXCEPT ![MockCallbackOf(event)] = callback]
                  ELSE callbacks
  /\ last' = OnStep(event, callback)
  /\ emitted' = << >>
  /\ UNCHANGED <<backend, sessionVars, liveVars, mockVars, nextId, parted,
                 explicitDisc, sends, inbound>>

Mock_connect(nick) ==
  /\ backend = "mock"
  /\ UNCHANGED <<aiVars, appVars>>
  /\ nextId < MaxConnects
  /\ Pending < MaxTimers
  /\ nextId' = nextId + 1
  /\ currentUser' = NickOf(nick)
  /\ timers' = Schedule(timers, Timer("connect", "", 0))
  /\ explicitDisc' = FALSE
  /\ last' = Step("connect", "", "none")
  /\ emitted' = << >>
  /\ UNCHANGED <<backend, sessionVars, callbacks, liveVars, messageInterval,
                 parted, sends, inbound>>

(* if (!this.channels.includes(channelName)) this.channels.push(channelName) *)
Mock_pushChannel_always(channelName) == Append(channels, channelName)
Mock_pushChannel(channelName) ==
  IF ~Includes(channels, channelName) THEN Append(channels, channelName) ELSE channels

(* index = indexOf(channelName); if (index > -1) splice(index, 1) *)
Mock_spliceChannel_unguarded(channelName) ==
  LET index == IndexOf(channels, channelName)
  IN IF index > 0 THEN Splice(channels, index)
     ELSE IF channels # << >> THEN Splice(channels, Len(channels)) ELSE channels
Mock_spliceChannel(channelName) ==
  LET index == IndexOf(channels, channelName)
  IN IF index > 0 THEN Splice(channels, index) ELSE channels

(* if (!this.connected) throw, in sendMessage *)
Mock_sendRejected_never == FALSE
Mock_sendRejected == ~connected

(* the body of joinChannel(channelName), run when tm is the timer bag *)
channelData(channelName) ==
  LET mockChannels == getMockChannels(currentUser)
      found == {i \in 1..Len(mockChannels) : mockChannels[i].name = channelName}
  IN IF found # {} THEN mockChannels[CHOOSE i \in found : TRUE]
     ELSE [name |-> channelName, users |-> <<currentUser>>]

joinChannel(channelName, tm) ==
  IF ~connected
  THEN /\ emitted' = Invoke("onError", NotConnectedError)
       /\ timers' = tm
       /\ UNCHANGED <<sessionVars, parted>>
  ELSE /\ channels' = Mock_pushChannel(channelName)
       /\ messages' = IF channelName \notin DOMAIN messages
                      THEN Put(messages, channelName, getMockMessages(channelName))
                      ELSE messages
       /\ users' = IF channelName \notin DOMAIN users
                   THEN Put(users, channelName, channelData(channelName).users)
                   ELSE users
       /\ timers' = Schedule(tm, Timer("join", channelName, 0))
       /\ emitted' = << >>
       /\ parted' = parted \ {channelName}
       /\ UNCHANGED connected

(* the 1000 ms timer of connect(), without its first statement *)
Mock_connectTimer_silent ==
  /\ backend = "mock"
  /\ UNCHANGED <<aiVars, appVars>>
  /\ timers[Timer("connect", "", 0)] > 0
  /\ emitted' = Invoke("onConnect", << >>)
  /\ timers' = Schedule(Cancel(timers, Timer("connect", "", 0)), Timer("autojoin", "", 0))
  /\ last' = Step("connectTimer", "", "none")
  /\ UNCHANGED <<backend, sessionVars, callbacks, liveVars, currentUser,
                 messageInterval, nextId, parted, explicitDisc, sends, inbound>>

(* the 1000 ms timer of connect() *)
Mock_connectTimer ==
  /\ backend = "mock"
  /\ UNCHANGED <<aiVars, appVars>>
  /\ timers[Timer("connect", "", 0)] > 0
  /\ connected' = TRUE
  /\ emitted' = Invoke("onConnect", << >>)
  /\ timers' = Schedule(Cancel(timers, Timer("connect", "", 0)), Timer("autojoin", "", 0))
  /\ last' = Step("connectTimer", "", "none")
  /\ UNCHANGED <<backend, channels, messages, users, callbacks, liveVars,
                 currentUser, messageInterval, nextId, parted, explicitDisc,
                 sends, inbound>>

(* the 500 ms auto-join timer *)
Mock_autoJoinTimer ==
  /\ backend = "mock"
  /\ UNCHANGED <<aiVars, appVars>>
  /\ timers[Timer("autojoin", "", 0)] > 0
  /\ joinChannel("#phantom-demo", Cancel(timers, Timer("autojoin", "", 0)))
  /\ last' = Step("autoJoinTimer", "#phantom-demo", "none")
  /\ UNCHANGED <<backend, callbacks, liveVars, currentUser, messageInterval,
                 nextId, explicitDisc, sends, inbound>>

Mock_joinChannel(channelName) ==
  /\ backend = "mock"
  /\ UNCHANGED <<aiVars, appVars>>
  /\ connected => Pending < MaxTimers
  /\ joinChannel(channelName, timers)
  /\ last' = Step("joinChannel", channelName, "none")
  /\ UNCHANGED <<backend, callbacks, liveVars, currentUser, messageInterval,
                 nextId, explicitDisc, sends, inbound>>

(* the 500 ms timer of joinChannel: callbacks, then startMessageSimulation *)
Mock_joinTimer(channelName) ==
  /\ backend = "mock"
  /\ UNCHANGED <<aiVars, appVars>>
  /\ timers[Timer("join", channelName, 0)] > 0
  /\ emitted' = Invoke("onJoin", [channel |-> channelName, nick |-> currentUser])
                \o Invoke("onUserList",
                          [channel |-> channelName,
                           users |-> IF channelName \in DOMAIN users
                                     THEN users[channelName] ELSE UNDEFINED])
  /\ timers' = Schedule(Cancel(timers, Timer("join", channelName, 0)),
                        Timer("interval", channelName, 0))
  /\ last' = Step("joinTimer", channelName, "none")
  /\ UNCHANGED <<backend, sessionVars, callbacks, liveVars, currentUser,
                 messageInterval, nextId, parted, explicitDisc, sends, inbound>>

Mock_partChannel(channelName) ==
  /\ backend = "mock"
  /\ UNCHANGED <<aiVars, appVars>>
  /\ channels' = Mock_spliceChannel(channelName)
  /\ parted' = IF Includes(channels, channelName)
               THEN parted \cup {channelName} ELSE parted
  /\ emitted' = Invoke("onPart", [channel |-> channelName, nick |-> currentUser])
  /\ last' = Step("partChannel", channelName, "none")
  /\ UNCHANGED <<backend, connected, messages, users, callbacks, liveVars,
                 mockVars, nextId, explicitDisc, sends, inbound>>

(* if (!this.messages[c]) this.messages[c] = []; this.messages[c].push(entry) *)
Push_overwrite(m, channel, entry) == Put(m, channel, <<entry>>)
Push(m, channel, entry) ==
  Put(m, channel, Append(IF channel \in DOMAIN m THEN m[channel] ELSE << >>, entry))

(* the handler calls that sendMessage makes before it returns *)
Mock_sendNotifications(channel, text) ==
  Invoke("onMessage", [nick |-> currentUser, target |-> channel,
                       message |-> text, time |-> "now"])

Mock_sendMessage(channel, text) ==
  /\ backend = "mock"
  /\ UNCHANGED <<aiVars, appVars>>
  /\ IF Mock_sendRejected
     THEN /\ last' = Step("sendMessage", channel, "Error")
          /\ emitted' = << >>
          /\ UNCHANGED <<messages, timers, sends, parted>>
     ELSE /\ sends < MaxSends
          /\ Pending < MaxTimers
          /\ messages' = Push(messages, channel, MockEntry(currentUser, text, "now"))
          /\ sends' = sends + 1
          /\ emitted' = Mock_sendNotifications(channel, text)
          /\ timers' = Schedule(timers, Timer("reply", channel, 0))
          /\ parted' = parted \ {channel}
          /\ last' = Step("sendMessage", channel, "none")
  /\ UNCHANGED <<backend, connected, channels, users, callbacks, liveVars,
                 currentUser, messageInterval, nextId, explicitDisc, inbound>>

(* the 2000..5000 ms reply timer of sendMessage *)
Mock_replyTimer(channel) ==
  /\ backend = "mock"
  /\ UNCHANGED <<aiVars, appVars>>
  /\ timers[Timer("reply", channel, 0)] > 0
  /\ timers' = Cancel(timers, Timer("reply", channel, 0))
  /\ IF channel \notin DOMAIN messages
     THEN \* this.messages[channel] is undefined: push throws
          /\ last' = Step("replyTimer", channel, "TypeError")
          /\ emitted' = << >>
          /\ UNCHANGED <<messages, inbound>>
     ELSE /\ inbound < MaxInbound
          /\ \E i \in RandomIdx(Len(replies)) :
               LET reply == replies[i]
               IN /\ messages' = Push(messages, channel,
                                      MockEntry(reply.user, reply.text, "now"))
                  /\ emitted' = Invoke("onMessage",
                                       [nick |-> reply.user, target |-> channel,
                                        message |-> reply.text, time |-> "now"])
          /\ inbound' = inbound + 1
          /\ last' = Step("replyTimer", channel, "none")
  /\ UNCHANGED <<backend, connected, channels, users, callbacks, liveVars,
                 currentUser, messageInterval, nextId, parted, explicitDisc, sends>>

(* one tick of the setInterval started by startMessageSimulation(channel) *)
Mock_intervalTick(channel) ==
  /\ backend = "mock"
  /\ UNCHANGED <<aiVars, appVars>>
  /\ timers[Timer("interval", channel, 0)] > 0
  /\ last' = Step("intervalTick", channel, "none")
  /\ IF ~Includes(channels, channel)
     THEN /\ timers' = Cancel(timers, Timer("interval", channel, 0))
          /\ emitted' = << >>
          /\ UNCHANGED <<messages, inbound>>
     ELSE IF randomMessages(channel) # << >> /\ callbacks["onMessage"] # NULL
     THEN /\ inbound < MaxInbound
          /\ \E i \in RandomIdx(Len(randomMessages(channel))) :
               LET randomMsg == randomMessages(channel)[i]
               IN /\ messages' = Push(messages, channel,
                                      MockEntry(randomMsg.user, randomMsg.text, "now"))
                  /\ emitted' = Invoke("onMessage",
                                       [nick |-> randomMsg.user, target |-> channel,
                                        message |-> randomMsg.text, time |-> "now"])
          /\ inbound' = inbound + 1
          /\ UNCHANGED timers
     ELSE /\ emitted' = << >>
          /\ UNCHANGED <<messages, timers, inbound>>
  /\ UNCHANGED <<backend, connected, channels, users, callbacks, liveVars,
                 currentUser, messageInterval, nextId, parted, explicitDisc, sends>>

Mock_disconnect ==
  /\ backend = "mock"
  /\ UNCHANGED <<aiVars, appVars>>
  /\ connected' = FALSE
  /\ channels' = << >>
  /\ messages' = EmptyMap
  /\ users' = EmptyMap
  /\ parted' = {}
  /\ explicitDisc' = TRUE
  /\ last' = Step("disconnect", "", "none")
  /\ emitted' = << >>
  \* this.messageInterval is never assigned, so clearInterval is never reached
  /\ UNCHANGED <<backend, callbacks, liveVars, mockVars, nextId, sends, inbound>>

MockNext ==
  \/ \E e \in MockOnEvents, h \in Handlers : Mock_on(e, h)
  \/ \E n \in ConfigNicks : Mock_connect(n)
  \/ Mock_connectTimer
  \/ Mock_autoJoinTimer
  \/ \E c \in Channels : Mock_joinChannel(c)
  \/ \E c \in Channels : Mock_joinTimer(c)
  \/ \E c \in Channels : Mock_partChannel(c)
  \/ \E c \in Channels, t \in Texts : Mock_sendMessage(c, t)
  \/ \E c \in Channels : Mock_replyTimer(c)
  \/ \E c \in Channels : Mock_intervalTick(c)
  \/ Mock_disconnect


(* ======================= live backend: PhantomIRCClient ================ *)
(* An IRC.Client is "connecting" from its connect() until it reports       *)
(* registered or fails, and "closed" (silent) once it failed or was quit.  *)
(* connect() replaces this.client without quitting the earlier object,     *)
(* which stays attached to the session through its handlers: stale counts  *)
(* those objects by state.  Events run the handlers connect() attached.    *)
Sources == {"client", "stale"}
StateOf(src) ==
  IF src = "client" THEN client
  ELSE IF stale.registered > 0 THEN "registered"
  ELSE IF stale.connecting > 0 THEN "connecting" ELSE NULL
SomeRegistered == client = "registered" \/ stale.registered > 0
SelfNicks == {NickOf(n) : n \in ConfigNicks}

(* if (!this.connected || !this.client) throw *)
Live_notConnected == ~connected \/ client = NULL

(* if (!this.channels.includes(event.channel)) this.channels.push(event.channel) *)
Live_pushChannel(channel) ==
  IF ~Includes(channels, channel) THEN Append(channels, channel) ELSE channels

Live_on(event, callback) ==
  /\ backend = "live"
  /\ UNCHANGED <<aiVars, appVars>>
  /\ callbacks' = IF event \in CallbackKinds
                  THEN [callbacks EXCEPT ![event] = callback]
                  ELSE callbacks
  /\ last' = OnStep(event, callback)
  /\ emitted' = << >>
  /\ UNCHANGED <<backend, sessionVars, liveVars, mockVars, nextId, parted,
                 explicitDisc, sends, inbound>>

Live_connect(nick) ==
  /\ backend = "live"
  /\ UNCHANGED <<aiVars, appVars>>
  /\ nextId < MaxConnects
  /\ nextId' = nextId + 1
  /\ stale' = IF client \in {"connecting", "registered"}
              THEN [stale EXCEPT ![client] = @ + 1] ELSE stale
  /\ client' = "connecting"
  /\ clientNick' = NickOf(nick)
  /\ explicitDisc' = FALSE
  /\ last' = Step("connect", "", "none")
  /\ emitted' = << >>
  /\ UNCHANGED <<backend, sessionVars, callbacks, mockVars, parted, sends,
                 inbound>>

Live_registered(src) ==
  /\ backend = "live"
  /\ UNCHANGED <<aiVars, appVars>>
  /\ IF src = "client"
     THEN /\ client = "connecting"
          /\ client' = "registered"
          /\ UNCHANGED stale
     ELSE /\ stale.connecting > 0
          /\ stale' = [connecting |-> stale.connecting - 1,
                       registered |-> stale.registered + 1]
          /\ UNCHANGED client
  /\ connected' = TRUE
  /\ emitted' = Invoke("onConnect", << >>)
  /\ last' = Step("registered", "", "none")
  /\ UNCHANGED <<backend, channels, messages, users, callbacks, clientNick,
                 mockVars, nextId, parted, explicitDisc, sends, inbound>>

Live_message(nick, target, text, type) ==
  /\ backend = "live"
  /\ UNCHANGED <<aiVars, appVars>>
  /\ SomeRegistered
  /\ inbound < MaxInbound
  /\ LET message == [from |-> nick, to |-> target, message |-> text,
                     time |-> "now", type |-> type]
     IN /\ messages' = Push(messages, target, message)
        /\ emitted' = Invoke("onMessage", message)
  /\ inbound' = inbound + 1
  /\ last' = Step("message", target, "none")
  /\ UNCHANGED <<backend, connected, channels, users, callbacks, liveVars,
                 mockVars, nextId, parted, explicitDisc, sends>>

Live_join(nick, channel) ==
  /\ backend = "live"
  /\ UNCHANGED <<aiVars, appVars>>
  /\ SomeRegistered
  /\ IF nick = clientNick
     THEN channels' = Live_pushChannel(channel)
     ELSE UNCHANGED channels
  /\ emitted' = Invoke("onJoin", [channel |-> channel, nick |-> nick])
  /\ last' = Step("join", channel, "none")
  /\ UNCHANGED <<backend, connected, messages, users, callbacks, liveVars,
                 mockVars, nextId, parted, explicitDisc, sends, inbound>>

Live_part(nick, channel) ==
  /\ backend = "live"
  /\ UNCHANGED <<aiVars, appVars>>
  /\ SomeRegistered
  /\ IF nick = clientNick
     THEN channels' = Filter(channels, channel)
     ELSE UNCHANGED channels
  /\ emitted' = Invoke("onPart", [channel |-> channel, nick |-> nick])
  /\ last' = Step("part", channel, "none")
  /\ UNCHANGED <<backend, connected, messages, users, callbacks, liveVars,
                 mockVars, nextId, parted, explicitDisc, sends, inbound>>

Live_userlist(channel, list) ==
  /\ backend = "live"
  /\ UNCHANGED <<aiVars, appVars>>
  /\ SomeRegistered
  /\ users' = Put(users, channel, list)
  /\ emitted' = Invoke("onUserList", [channel |-> channel, users |-> list])
  /\ last' = Step("userlist", channel, "none")
  /\ UNCHANGED <<backend, connected, channels, messages, callbacks, liveVars,
                 mockVars, nextId, parted, explicitDisc, sends, inbound>>

(* an error while connecting is a failed attempt: that object goes silent *)
Live_error(src) ==
  /\ backend = "live"
  /\ UNCHANGED <<aiVars, appVars>>
  /\ StateOf(src) \in {"connecting", "registered"}
  /\ IF src = "client"
     THEN /\ client' = IF client = "connecting" THEN "closed" ELSE client
          /\ UNCHANGED stale
     ELSE /\ stale' = IF StateOf(src) = "connecting"
                      THEN [stale EXCEPT !.connecting = @ - 1] ELSE stale
          /\ UNCHANGED client
  /\ emitted' = Invoke("onError", "event.error")
  /\ last' = Step("error", "", "none")
  /\ UNCHANGED <<backend, sessionVars, callbacks, clientNick, mockVars,
                 nextId, parted, explicitDisc, sends, inbound>>

Live_joinChannel(channel) ==
  /\ backend = "live"
  /\ UNCHANGED <<aiVars, appVars>>
  /\ last' = Step("joinChannel", channel,
                  IF Live_notConnected THEN "Error" ELSE "none")
  /\ emitted' = << >>
  /\ UNCHANGED <<backend, sessionVars, callbacks, liveVars, mockVars, nextId,
                 parted, explicitDisc, sends, inbound>>

Live_partChannel(channel) ==
  /\ backend = "live"
  /\ UNCHANGED <<aiVars, appVars>>
  /\ last' = Step("partChannel", channel,
                  IF Live_notConnected THEN "Error" ELSE "none")
  /\ emitted' = << >>
  /\ UNCHANGED <<backend, sessionVars, callbacks, liveVars, mockVars, nextId,
                 parted, explicitDisc, sends, inbound>>

(* the handler calls that sendMessage makes before it returns: none, the  *)
(* own message is only stored                                              *)
Live_sendNotifications(target, message) == << >>

Live_sendMessage(target, message) ==
  /\ backend = "live"
  /\ UNCHANGED <<aiVars, appVars>>
  /\ IF Live_notConnected
     THEN /\ last' = Step("sendMessage", target, "Error")
          /\ emitted' = << >>
          /\ UNCHANGED <<messages, sends>>
     ELSE /\ sends < MaxSends
          /\ messages' = Push(messages, target,
                              [from |-> clientNick, to |-> target,
                               message |-> message, time |-> "now", type |-> "own"])
          /\ sends' = sends + 1
          /\ emitted' = Live_sendNotifications(target, message)
          /\ last' = Step("sendMessage", target, "none")
  /\ UNCHANGED <<backend, connected, channels, users, callbacks, liveVars,
                 mockVars, nextId, parted, explicitDisc, inbound>>

Live_disconnect ==
  /\ backend = "live"
  /\ UNCHANGED <<aiVars, appVars>>
  /\ IF client # NULL
     THEN /\ client' = "closed"
          /\ connected' = FALSE
     ELSE UNCHANGED <<client, connected>>
  /\ explicitDisc' = TRUE
  /\ last' = Step("disconnect", "", "none")
  /\ emitted' = << >>
  /\ UNCHANGED <<backend, channels, messages, users, callbacks, stale,
                 clientNick, mockVars, nextId, parted, sends, inbound>>

LiveNext ==
  \/ \E e \in LiveOnEvents, h \in Handlers : Live_on(e, h)
  \/ \E n \in ConfigNicks : Live_connect(n)
  \/ \E src \in Sources : Live_registered(src)
  \/ \E n \in OtherNicks, c \in Channels, x \in Texts, y \in MsgTypes :
       Live_message(n, c, x, y)
  \/ \E c \in Channels, n \in OtherNicks \cup SelfNicks : Live_join(n, c)
  \/ \E c \in Channels, n \in OtherNicks \cup SelfNicks : Live_part(n, c)
  \/ \E c \in Channels, l \in UserLists : Live_userlist(c, l)
  \/ \E src \in Sources : Live_error(src)
  \/ \E c \in Channels : Live_joinChannel(c)
  \/ \E c \in Channels : Live_partChannel(c)
  \/ \E c \in Channels, x \in Texts : Live_sendMessage(c, x)
  \/ Live_disconnect

Next == MockNext \/ LiveNext

Spec == Init /\ [][Next]_vars

(* setTimeout callbacks run once their delay has passed: a pending connect *)
(* timer is not postponed for ever                                         *)
FairSpec == Spec /\ WF_vars(Mock_connectTimer)


(* ======================= text, as JavaScript handles it ================ *)
(* A string is the sequence of its characters; NoText and NullText stand   *)
(* for undefined and null where a string is expected.                      *)
NoText == <<UNDEFINED>>
NullText == <<NULL>>
(* a number where a string is expected: the word number, then its digits *)
NumberText(digits) == <<"number", digits>>
IsNumber(t) == Len(t) = 2 /\ t[1] = "number"
IsString(t) == t # NoText /\ t # NullText /\ ~IsNumber(t)
Digits == <<"0", "1", "2", "3", "4", "5", "6", "7", "8", "9">>
Lower == <<"a", "b", "c", "d", "e", "f", "g", "h", "i", "j", "k", "l", "m",
           "n", "o", "p", "q", "r", "s", "t", "u", "v", "w", "x", "y", "z">>
Upper == <<"A", "B", "C", "D", "E", "F", "G", "H", "I", "J", "K", "L", "M",
           "N", "O", "P", "Q", "R", "S", "T", "U", "V", "W", "X", "Y", "Z">>
Whitespace == {" ", "\n", "\t"}
NaN == "NaN"
IsDigit(c) == Includes(Digits, c)
DigitValue(c) == IndexOf(Digits, c) - 1
(* \w of a regular expression *)
IsWordChar(c) == IsDigit(c) \/ Includes(Lower, c) \/ Includes(Upper, c) \/ c = "_"

ToUpperCase(t) ==
  [i \in 1..Len(t) |-> IF Includes(Lower, t[i]) THEN Upper[IndexOf(Lower, t[i])] ELSE t[i]]
ToLowerCase(t) ==
  [i \in 1..Len(t) |-> IF Includes(Upper, t[i]) THEN Lower[IndexOf(Upper, t[i])] ELSE t[i]]

RECURSIVE TrimStart(_)
TrimStart(t) ==
  IF t # << >> /\ Head(t) \in Whitespace THEN TrimStart(Tail(t)) ELSE t
RECURSIVE TrimEnd(_)
TrimEnd(t) ==
  IF t # << >> /\ t[Len(t)] \in Whitespace THEN TrimEnd(SubSeq(t, 1, Len(t) - 1)) ELSE t
Trim(t) == TrimEnd(TrimStart(t))

(* t.startsWith(p) from position i (1-based) *)
StartsWithAt(t, p, i) ==
  i + Len(p) - 1 <= Len(t) /\ SubSeq(t, i, i + Len(p) - 1) = p
(* t.indexOf(p), 1-based from position i; 0 when p does not occur *)
Find(t, p, i) ==
  LET hits == {j \in i..Len(t) : StartsWithAt(t, p, j)}
  IN IF hits = {} THEN 0 ELSE CHOOSE j \in hits : \A k \in hits : j <= k
TextIncludes(t, p) == p = << >> \/ Find(t, p, 1) > 0

(* t.split(sep) for a one-character separator *)
RECURSIVE Split(_, _)
Split(t, sep) ==
  LET j == Find(t, <<sep>>, 1)
  IN IF j = 0 THEN <<t>>
     ELSE <<SubSeq(t, 1, j - 1)>> \o Split(SubSeq(t, j + 1, Len(t)), sep)

(* the leading run of digits of t *)
RECURSIVE DigitRun(_)
DigitRun(t) ==
  IF t # << >> /\ IsDigit(Head(t)) THEN <<Head(t)>> \o DigitRun(Tail(t)) ELSE << >>
RECURSIVE DecimalValue(_, _)
DecimalValue(d, acc) ==
  IF d = << >> THEN acc ELSE DecimalValue(Tail(d), acc * 10 + DigitValue(Head(d)))
(* parseInt(t): leading white space, an optional sign, then decimal        *)
(* digits; NaN when no digit follows, and for undefined                    *)
IntDigits(t) ==
  LET u == TrimStart(t)
  IN DigitRun(IF u # << >> /\ Head(u) \in {"-", "+"} THEN Tail(u) ELSE u)
ParseIntIsNaN(t) == t = NoText \/ IntDigits(t) = << >>
ParseInt(t) ==
  LET u == TrimStart(t)
  IN IF u # << >> /\ Head(u) = "-"
     THEN 0 - DecimalValue(IntDigits(t), 0) ELSE DecimalValue(IntDigits(t), 0)
(* parseInt(t) || d: NaN and 0 are falsy *)
ParseIntOr(t, d) ==
  IF ParseIntIsNaN(t) THEN d ELSE IF ParseInt(t) = 0 THEN d ELSE ParseInt(t)
(* t || d for a string or undefined: undefined and "" are falsy *)
TextOr(t, d) == IF t = NoText \/ t = NullText \/ t = << >> THEN d ELSE t
(* the part of t from position i up to the end of its line: what a        *)
(* capture group of "any characters" matches without the s flag            *)
RestOfLine(t, i) ==
  LET j == Find(t, <<"\n">>, i)
  IN IF j = 0 THEN SubSeq(t, i, Len(t)) ELSE SubSeq(t, i, j - 1)
(* t.match(label, then the rest of the line)?.[1]: undefined when the     *)
(* label does not occur                                                    *)
MatchLine(t, label) ==
  LET j == Find(t, label, 1)
  IN IF j = 0 THEN NoText ELSE RestOfLine(t, j + Len(label))

(* ========================= AI service: PhantomAI ======================= *)
(* src/src/lib/ai-service.js.  A feature call runs to its first await in   *)
(* one step; the answer of this.client.messages.create is a step of its    *)
(* own and runs the call to its next await or to its return.               *)
MaxProviderCalls == 3   \* provider requests made in one behaviour
MaxTasks == 2           \* invocations of handleSendMessage in one behaviour

KeyAnthropic ==
  <<"s", "k", "-", "a", "n", "t", "-", "a", "b", "c", "1", "2", "3">>
KeyGroq ==
  <<"g", "s", "k", "_", "x", "y", "z">>
KeyUnknown ==
  <<"n", "o", "t", "a", "r", "e", "a", "l", "k", "e", "y">>
ApiKeys == {KeyAnthropic, KeyGroq, KeyUnknown, << >>, NoText}

(* truthiness of a string, a number, null or undefined *)
Truthy(t) == t # NoText /\ t # NullText /\ t # << >> /\ t # NumberText("0")

(* detectProvider(apiKey) of the provider layer *)
PrefixAnthropic ==
  <<"s", "k", "-", "a", "n", "t", "-">>
PrefixGroq ==
  <<"g", "s", "k", "_">>
PrefixGemini ==
  <<"A", "I", "z", "a">>
PrefixOpenAIProject ==
  <<"s", "k", "-", "p", "r", "o", "j", "-">>
PrefixOpenAI ==
  <<"s", "k", "-">>
IsAlphanumeric(c) == IsDigit(c) \/ Includes(Lower, c) \/ Includes(Upper, c)
(* apiKey.startsWith of a value that is no string throws *)
TypeError == "TypeError"
detectProvider_unguarded(apiKey) ==
  IF ~IsString(apiKey) THEN TypeError
  ELSE IF StartsWithAt(apiKey, PrefixAnthropic, 1) THEN "anthropic"
  ELSE IF StartsWithAt(apiKey, PrefixGroq, 1) THEN "groq"
  ELSE IF StartsWithAt(apiKey, PrefixGemini, 1) THEN "gemini"
  ELSE IF Len(apiKey) = 32 /\ \A i \in 1..32 : IsAlphanumeric(apiKey[i]) THEN "mistral"
  ELSE IF StartsWithAt(apiKey, PrefixOpenAI, 1) THEN "openai"
  ELSE NULL
detectProvider_mistralFirst(apiKey) ==
  IF ~Truthy(apiKey) \/ ~IsString(apiKey) THEN NULL
  ELSE IF Len(apiKey) = 32 /\ \A i \in 1..32 : IsAlphanumeric(apiKey[i]) THEN "mistral"
  ELSE IF StartsWithAt(apiKey, PrefixAnthropic, 1) THEN "anthropic"
  ELSE IF StartsWithAt(apiKey, PrefixGroq, 1) THEN "groq"
  ELSE IF StartsWithAt(apiKey, PrefixGemini, 1) THEN "gemini"
  ELSE IF StartsWithAt(apiKey, PrefixOpenAI, 1) THEN "openai"
  ELSE NULL
detectProvider(apiKey) ==
  IF ~Truthy(apiKey) \/ ~IsString(apiKey) THEN NULL
  ELSE IF StartsWithAt(apiKey, PrefixAnthropic, 1) THEN "anthropic"
  ELSE IF StartsWithAt(apiKey, PrefixGroq, 1) THEN "groq"
  ELSE IF StartsWithAt(apiKey, PrefixGemini, 1) THEN "gemini"
  ELSE IF Len(apiKey) = 32 /\ \A i \in 1..32 : IsAlphanumeric(apiKey[i]) THEN "mistral"
  ELSE IF \/ StartsWithAt(apiKey, PrefixOpenAIProject, 1)
          \/ (StartsWithAt(apiKey, PrefixOpenAI, 1)
                /\ ~StartsWithAt(apiKey, PrefixAnthropic, 1))
  THEN "openai"
  ELSE NULL

(* the adapters: an object of one of the five classes, or null *)
NoProvider == [isNull |-> TRUE]
NewProvider(class, apiKey) == [isNull |-> FALSE, class |-> class, apiKey |-> apiKey]
(* getName() of each class *)
getName(provider) ==
  CASE provider.class = "AnthropicProvider" -> "anthropic"
    [] provider.class = "OpenAIProvider" -> "openai"
    [] provider.class = "GeminiProvider" -> "gemini"
    [] provider.class = "GroqProvider" -> "groq"
    [] provider.class = "MistralProvider" -> "mistral"
(* createProvider(apiKey) *)
createProvider_noGroq(apiKey) ==
  LET providerType == detectProvider(apiKey)
  IN CASE providerType = "anthropic" -> NewProvider("AnthropicProvider", apiKey)
       [] providerType = "openai" -> NewProvider("OpenAIProvider", apiKey)
       [] providerType = "gemini" -> NewProvider("GeminiProvider", apiKey)
       [] providerType = "mistral" -> NewProvider("MistralProvider", apiKey)
       [] OTHER -> NoProvider
createProvider(apiKey) ==
  LET providerType == detectProvider(apiKey)
  IN CASE providerType = "anthropic" -> NewProvider("AnthropicProvider", apiKey)
       [] providerType = "openai" -> NewProvider("OpenAIProvider", apiKey)
       [] providerType = "gemini" -> NewProvider("GeminiProvider", apiKey)
       [] providerType = "groq" -> NewProvider("GroqProvider", apiKey)
       [] providerType = "mistral" -> NewProvider("MistralProvider", apiKey)
       [] OTHER -> NoProvider

(* constructor(apiKey) *)
PhantomAI(apiKey) ==
  [exists |-> TRUE,
   apiKey |-> apiKey,
   client |-> IF Truthy(apiKey) THEN "Anthropic" ELSE NULL,
   enabled |-> Truthy(apiKey)]

(* how a feature call goes on: it returns, or waits for the provider *)
Return(value) == [kind |-> "return", value |-> value]
Raise(error) == [kind |-> "raise", value |-> error]
(* waiting in extractCodeSnippets at block k of message i, with the snippets *)
(* pushed so far                                                             *)
AwaitAt(i, k, snippets) == [kind |-> "await", i |-> i, k |-> k, snippets |-> snippets]
AwaitProvider == AwaitAt(0, 0, << >>)
(* answers of the provider: a response whose content[0].text is text (or   *)
(* is missing), or a rejection                                             *)
Response(text) == [ok |-> TRUE, text |-> text]
Rejection == [ok |-> FALSE]
(* response.content[0].text.trim() throws when the text is missing *)
Unusable(response) == ~response.ok \/ ~IsString(response.text)
TextField(r, f) == IF f \in DOMAIN r THEN r[f] ELSE NoText

(* chat(prompt, options) of the five classes once the vendor request has   *)
(* settled: the request is awaited outside any try, so its rejection is    *)
(* the rejection of chat, and the text of the response is trimmed          *)
VendorFailure == [name |-> "Error", message |-> "request failed"]
chat(provider, response) ==
  IF ~response.ok THEN Raise(VendorFailure)
  ELSE IF ~IsString(response.text) THEN Raise([name |-> TypeError, message |-> "trim"])
  ELSE Return(Trim(response.text))

(* ---- checkSpam(message, channel), lines 20-52 ---- *)
TxtSPAM ==
  <<"S", "P", "A", "M">>
TxtAIDisabled ==
  <<"A", "I", " ", "d", "i", "s", "a", "b", "l", "e", "d">>
TxtAIError ==
  <<"A", "I", " ", "e", "r", "r", "o", "r">>
TxtNoReason ==
  <<"N", "o", " ", "r", "e", "a", "s", "o", "n", " ", "p", "r", "o", "v",
    "i", "d", "e", "d">>
SpamDisabled == [isSpam |-> FALSE, confidence |-> 0, reason |-> TxtAIDisabled]
SpamError == [isSpam |-> FALSE, confidence |-> 0, reason |-> TxtAIError]
checkSpam_begin_unguarded(service) == AwaitProvider
checkSpam_begin(service) ==
  IF ~service.enabled THEN Return(SpamDisabled) ELSE AwaitProvider
checkSpam_parse(text) ==
  LET result == Trim(text)
      parts == Split(result, "|")
      part(i) == IF i <= Len(parts) THEN Trim(parts[i]) ELSE NoText
  IN [isSpam |-> ToUpperCase(part(1)) = TxtSPAM,
      confidence |-> ParseIntOr(part(2), 50),
      reason |-> TextOr(part(3), TxtNoReason)]
checkSpam_resume_rethrow(response) ==
  IF Unusable(response) THEN Raise("rejection")
  ELSE Return(checkSpam_parse(response.text))
checkSpam_resume(response) ==
  IF Unusable(response) THEN Return(SpamError)
  ELSE Return(checkSpam_parse(response.text))

(* ---- summarizeMessages(messages, channel), lines 60-93 ---- *)
TxtSummaryDisabled ==
  <<"A", "I", " ", "s", "u", "m", "m", "a", "r", "i", "z", "a", "t", "i",
    "o", "n", " ", "d", "i", "s", "a", "b", "l", "e", "d", ".", " ", "N",
    "o", " ", "A", "P", "I", " ", "k", "e", "y", " ", "p", "r", "o", "v",
    "i", "d", "e", "d", ".">>
TxtNoMessages ==
  <<"N", "o", " ", "m", "e", "s", "s", "a", "g", "e", "s", " ", "t", "o",
    " ", "s", "u", "m", "m", "a", "r", "i", "z", "e", ".">>
TxtSummaryFailed ==
  <<"F", "a", "i", "l", "e", "d", " ", "t", "o", " ", "g", "e", "n", "e",
    "r", "a", "t", "e", " ", "s", "u", "m", "m", "a", "r", "y", ".", " ",
    "A", "I", " ", "s", "e", "r", "v", "i", "c", "e", " ", "e", "r", "r",
    "o", "r", ".">>
(* m.time.toLocaleTimeString() throws unless m.time is a Date *)
Formattable(msgs) ==
  \A i \in 1..Len(msgs) : Field(msgs[i], "time") = "Date"
summarizeMessages_begin(service, msgs) ==
  IF ~service.enabled THEN Return(TxtSummaryDisabled)
  ELSE IF Len(msgs) = 0 THEN Return(TxtNoMessages)
  ELSE IF ~Formattable(msgs) THEN Return(TxtSummaryFailed)
  ELSE AwaitProvider
summarizeMessages_resume(response) ==
  IF Unusable(response) THEN Return(TxtSummaryFailed)
  ELSE Return(Trim(response.text))

(* ---- getNotificationPriority(message, userNick), lines 101-134 ---- *)
TxtHigh ==
  <<"h", "i", "g", "h">>
TxtMedium ==
  <<"m", "e", "d", "i", "u", "m">>
TxtLow ==
  <<"l", "o", "w">>
TxtDirectMention ==
  <<"D", "i", "r", "e", "c", "t", " ", "m", "e", "n", "t", "i", "o", "n">>
TxtAIAnalysis ==
  <<"A", "I", " ", "a", "n", "a", "l", "y", "s", "i", "s">>
PriorityDisabled == [priority |-> TxtMedium, reason |-> TxtAIDisabled]
PriorityError == [priority |-> TxtMedium, reason |-> TxtAIError]
getNotificationPriority_begin(service, message, userNick) ==
  IF ~service.enabled THEN Return(PriorityDisabled)
  ELSE IF ~IsString(message) \/ ~IsString(userNick) THEN Return(PriorityError)
  ELSE IF TextIncludes(ToLowerCase(message), ToLowerCase(userNick))
  THEN Return([priority |-> TxtHigh, reason |-> TxtDirectMention])
  ELSE AwaitProvider
getNotificationPriority_resume_asReplied(response) ==
  IF Unusable(response) THEN Return(PriorityError)
  ELSE Return([priority |-> ToLowerCase(Trim(response.text)), reason |-> TxtAIAnalysis])
getNotificationPriority_resume(response) ==
  IF Unusable(response) THEN Return(PriorityError)
  ELSE LET priority == ToLowerCase(Trim(response.text))
       IN Return([priority |-> IF priority \in {TxtHigh, TxtMedium, TxtLow}
                               THEN priority ELSE TxtMedium,
                  reason |-> TxtAIAnalysis])

(* ---- smartCatchUp(messages, channel), lines 143-189 ---- *)
TxtNoMessagesShort ==
  <<"N", "o", " ", "m", "e", "s", "s", "a", "g", "e", "s">>
TxtNoSummary ==
  <<"N", "o", " ", "s", "u", "m", "m", "a", "r", "y", " ", "a", "v", "a",
    "i", "l", "a", "b", "l", "e">>
LblTopics ==
  <<"T", "O", "P", "I", "C", "S", ":", " ">>
LblDecisions ==
  <<"D", "E", "C", "I", "S", "I", "O", "N", "S", ":", " ">>
LblCodeSnippets ==
  <<"C", "O", "D", "E", "_", "S", "N", "I", "P", "P", "E", "T", "S", ":",
    " ">>
LblSummary ==
  <<"S", "U", "M", "M", "A", "R", "Y", ":", " ">>
CatchUp(summary) ==
  [topics |-> << >>, keyDecisions |-> << >>, codeShared |-> 0, summary |-> summary]
RECURSIVE NonEmpty(_)
NonEmpty(parts) ==
  IF parts = << >> THEN << >>
  ELSE IF Head(parts) = << >> THEN NonEmpty(Tail(parts))
  ELSE <<Head(parts)>> \o NonEmpty(Tail(parts))
(* x?.split('|').map(s => s.trim()).filter(Boolean) || [] *)
SplitList(t) ==
  IF t = NoText THEN << >>
  ELSE LET parts == Split(t, "|")
       IN NonEmpty([k \in 1..Len(parts) |-> Trim(parts[k])])
(* t.match(label, then one or more digits)?.[1] *)
MatchDigits(t, label) ==
  LET hits == {j \in 1..Len(t) : /\ StartsWithAt(t, label, j)
                                  /\ j + Len(label) <= Len(t)
                                  /\ IsDigit(t[j + Len(label)])}
  IN IF hits = {} THEN NoText
     ELSE LET j == CHOOSE h \in hits : \A k \in hits : h <= k
          IN DigitRun(SubSeq(t, j + Len(label), Len(t)))
(* x?.trim() *)
TrimIfAny(t) == IF t = NoText THEN NoText ELSE Trim(t)
smartCatchUp_begin(service, msgs) ==
  IF ~service.enabled THEN Return(CatchUp(TxtAIDisabled))
  ELSE IF Len(msgs) = 0 THEN Return(CatchUp(TxtNoMessagesShort))
  ELSE IF ~Formattable(msgs) THEN Return(CatchUp(TxtAIError))
  ELSE AwaitProvider
smartCatchUp_parse_allOrNothing(text) ==
  LET result == Trim(text)
  IN IF \/ MatchLine(result, LblTopics) = NoText
        \/ MatchLine(result, LblDecisions) = NoText
        \/ MatchDigits(result, LblCodeSnippets) = NoText
        \/ MatchLine(result, LblSummary) = NoText
     THEN CatchUp(TxtNoSummary)
     ELSE [topics |-> SplitList(MatchLine(result, LblTopics)),
           keyDecisions |-> SplitList(MatchLine(result, LblDecisions)),
           codeShared |-> ParseInt(MatchDigits(result, LblCodeSnippets)),
           summary |-> TextOr(TrimIfAny(MatchLine(result, LblSummary)), TxtNoSummary)]
smartCatchUp_parse(text) ==
  LET result == Trim(text)
  IN [topics |-> SplitList(MatchLine(result, LblTopics)),
      keyDecisions |-> SplitList(MatchLine(result, LblDecisions)),
      codeShared |-> ParseInt(TextOr(MatchDigits(result, LblCodeSnippets), <<"0">>)),
      summary |-> TextOr(TrimIfAny(MatchLine(result, LblSummary)), TxtNoSummary)]
smartCatchUp_resume(response) ==
  IF Unusable(response) THEN Return(CatchUp(TxtAIError))
  ELSE Return(smartCatchUp_parse(response.text))

(* ---- findPastAnswer(question, pastAnswers), lines 276-326 ---- *)
TxtNone ==
  <<"n", "o", "n", "e">>
LblFoundYes ==
  <<"F", "O", "U", "N", "D", ":", " ", "Y", "E", "S">>
LblFoundNo ==
  <<"F", "O", "U", "N", "D", ":", " ", "N", "O">>
LblMatchId ==
  <<"M", "A", "T", "C", "H", "_", "I", "D", ":", " ", "Q">>
LblSimilarity ==
  <<"S", "I", "M", "I", "L", "A", "R", "I", "T", "Y", ":", " ">>
LblSuggested ==
  <<"S", "U", "G", "G", "E", "S", "T", "E", "D", "_", "A", "N", "S", "W",
    "E", "R", ":", " ">>
NotFound(similarity) ==
  [foundAnswer |-> FALSE, answer |-> NullText, similarity |-> similarity]
(* pastAnswers[i] for a 0-based i: the entry, or undefined *)
UndefinedEntry == [isUndefined |-> TRUE]
EntryAt(pastAnswers, i) ==
  IF i + 1 \in 1..Len(pastAnswers) THEN pastAnswers[i + 1] ELSE UndefinedEntry
(* pastAnswers.slice(-20) *)
LastTwenty(pastAnswers) ==
  IF Len(pastAnswers) <= 20 THEN pastAnswers
  ELSE SubSeq(pastAnswers, Len(pastAnswers) - 19, Len(pastAnswers))
(* result.match(FOUND: (YES|NO))?.[1] === 'YES': the first of the two *)
FoundYes(t) ==
  LET yes == Find(t, LblFoundYes, 1)
      no == Find(t, LblFoundNo, 1)
  IN yes > 0 /\ (no = 0 \/ yes < no)
(* result.match(SUGGESTED_ANSWER: , then everything to the end)?.[1]?.trim() *)
SuggestedAnswer(t) ==
  LET j == Find(t, LblSuggested, 1)
  IN IF j = 0 THEN NoText ELSE Trim(SubSeq(t, j + Len(LblSuggested), Len(t)))
findPastAnswer_begin(service, pastAnswers) ==
  IF ~service.enabled \/ Len(pastAnswers) = 0 THEN Return(NotFound(0))
  ELSE AwaitProvider
findPastAnswer_parse(text, pastAnswers) ==
  LET result == Trim(text)
      found == FoundYes(result)
      matchId == MatchDigits(result, LblMatchId)
      similarity == ParseInt(TextOr(MatchDigits(result, LblSimilarity), <<"0">>))
      suggestedAnswer == SuggestedAnswer(result)
  IN IF found /\ Truthy(matchId) /\ Truthy(suggestedAnswer) /\ suggestedAnswer # TxtNone
     THEN [foundAnswer |-> TRUE,
           answer |-> suggestedAnswer,
           similarity |-> similarity,
           original |-> EntryAt(pastAnswers, ParseInt(matchId))]
     ELSE NotFound(similarity)
findPastAnswer_resume(response, pastAnswers) ==
  IF Unusable(response) THEN Return(NotFound(0))
  ELSE Return(findPastAnswer_parse(response.text, pastAnswers))

(* ---- extractCodeSnippets(messages), lines 197-267 ---- *)
(* the backquote character, written by name *)
BQ == "backquote"
Fence == <<BQ, BQ, BQ>>
TxtUnknown ==
  <<"u", "n", "k", "n", "o", "w", "n">>
TxtCodeSnippet ==
  <<"C", "o", "d", "e", " ", "s", "n", "i", "p", "p", "e", "t">>
TxtGeneral ==
  <<"g", "e", "n", "e", "r", "a", "l">>
LblLanguage ==
  <<"L", "A", "N", "G", "U", "A", "G", "E", ":", " ">>
LblPurpose ==
  <<"P", "U", "R", "P", "O", "S", "E", ":", " ">>
LblCategory ==
  <<"C", "A", "T", "E", "G", "O", "R", "Y", ":", " ">>
RECURSIVE WordRun(_)
WordRun(t) ==
  IF t # << >> /\ IsWordChar(Head(t)) THEN <<Head(t)>> \o WordRun(Tail(t)) ELSE << >>
(* the matches of the fenced-block pattern in t from position from: three  *)
(* backquotes, an optional word, a newline, at least one character up to   *)
(* the next three backquotes; each match is its word and its body          *)
RECURSIVE FencedBlocks(_, _)
FencedBlocks(t, from) ==
  LET j == Find(t, Fence, from)
  IN IF j = 0 THEN << >>
     ELSE LET word == WordRun(SubSeq(t, j + 3, Len(t)))
              nl == j + 3 + Len(word)
              close == IF nl <= Len(t) /\ t[nl] = "\n" THEN Find(t, Fence, nl + 2) ELSE 0
          IN IF close = 0 THEN FencedBlocks(t, j + 1)
             ELSE <<[word |-> word, body |-> SubSeq(t, nl + 1, close - 1)]>>
                    \o FencedBlocks(t, close + 3)
Snippet(msg, code, language, context, category) ==
  [code |-> code,
   language |-> language,
   author |-> Field(msg, "from"),
   context |-> context,
   category |-> category,
   timestamp |-> Field(msg, "time"),
   channel |-> IF Field(msg, "to") = UNDEFINED THEN "unknown" ELSE msg.to]
(* the snippet pushed for block k of message i, given the provider's answer *)
extractCodeSnippets_snippet(msg, block, response) ==
  LET language == TextOr(block.word, TxtUnknown)
      code == Trim(block.body)
  IN IF Unusable(response)
     THEN Snippet(msg, code, language, TxtCodeSnippet, TxtGeneral)
     ELSE LET analysis == Trim(response.text)
          IN Snippet(msg, code,
                     TextOr(TrimIfAny(MatchLine(analysis, LblLanguage)), language),
                     TextOr(TrimIfAny(MatchLine(analysis, LblPurpose)), TxtCodeSnippet),
                     TextOr(TrimIfAny(MatchLine(analysis, LblCategory)), TxtGeneral))
(* the two loops, from block k of message i, up to the next await *)
RECURSIVE extractCodeSnippets_loop(_, _, _, _)
extractCodeSnippets_loop(msgs, i, k, snippets) ==
  IF i > Len(msgs) THEN Return(snippets)
  ELSE IF ~IsString(TextField(msgs[i], "message")) THEN Raise("TypeError")
  ELSE IF k > Len(FencedBlocks(msgs[i].message, 1))
  THEN extractCodeSnippets_loop(msgs, i + 1, 1, snippets)
  ELSE AwaitAt(i, k, snippets)
extractCodeSnippets_begin(service, msgs) ==
  IF ~service.enabled THEN Return(<< >>)
  ELSE extractCodeSnippets_loop(msgs, 1, 1, << >>)
extractCodeSnippets_resume_dropFailed(response, msgs, i, k, snippets) ==
  extractCodeSnippets_loop(msgs, i, k + 1,
    IF Unusable(response) THEN snippets
    ELSE Append(snippets,
                extractCodeSnippets_snippet(msgs[i], FencedBlocks(msgs[i].message, 1)[k],
                                            response)))
extractCodeSnippets_resume(response, msgs, i, k, snippets) ==
  extractCodeSnippets_loop(msgs, i, k + 1,
    Append(snippets,
           extractCodeSnippets_snippet(msgs[i], FencedBlocks(msgs[i].message, 1)[k],
                                       response)))

(* ---- inputs of the feature calls ---- *)
TextHello ==
  <<"h", "e", "l", "l", "o">>
TextMention ==
  <<"p", "i", "n", "g", " ", "M", "E", " ", "n", "o", "w">>
NickMe ==
  <<"m", "e">>
TextCode ==
  <<"s", "e", "e", " ", BQ, BQ, BQ, "j", "s", "\n", "x", "=", "1", "\n",
    BQ, BQ, BQ, " ", "a", "n", "d", " ", BQ, BQ, BQ, "\n", "y", BQ, BQ, BQ>>
TextCodeMore ==
  <<"t", "h", "e", "n", " ", BQ, BQ, BQ, "p", "y", "\n", "z", " ", "=",
    " ", "2", "\n", BQ, BQ, BQ, " ", "w", "o", "r", "k", "s">>
ReplySpam ==
  <<"S", "P", "A", "M", "|", "9", "5", "|", "p", "r", "o", "m", "o", "t",
    "i", "o", "n", "a", "l", " ", "l", "i", "n", "k", "s">>
ReplySpamLow ==
  <<"S", "P", "A", "M", "|", " ", "7", "0", " ", "|", "b", "o", "r", "d",
    "e", "r", "l", "i", "n", "e">>
ReplyLegit ==
  <<"L", "E", "G", "I", "T", "I", "M", "A", "T", "E", "|", "1", "0">>
ReplyHigh ==
  <<" ", "H", "I", "G", "H", "\n">>
ReplyCatchUp ==
  <<"T", "O", "P", "I", "C", "S", ":", " ", "h", "o", "o", "k", "s", " ",
    "|", " ", "v", "i", "t", "e", "\n", "C", "O", "D", "E", "_", "S", "N",
    "I", "P", "P", "E", "T", "S", ":", " ", "2", "\n", "S", "U", "M", "M",
    "A", "R", "Y", ":", " ", "s", "h", "o", "r", "t">>
ReplyFound ==
  <<"F", "O", "U", "N", "D", ":", " ", "Y", "E", "S", "\n", "M", "A", "T",
    "C", "H", "_", "I", "D", ":", " ", "Q", "1", "\n", "S", "I", "M", "I",
    "L", "A", "R", "I", "T", "Y", ":", " ", "9", "0", "\n", "S", "U", "G",
    "G", "E", "S", "T", "E", "D", "_", "A", "N", "S", "W", "E", "R", ":",
    " ", "u", "s", "e", " ", "h", "o", "o", "k", "s">>
ReplySpamOver ==
  <<"S", "P", "A", "M", "|", "1", "5", "0", "|", "c", "e", "r", "t", "a",
    "i", "n">>
ReplyLegitZero ==
  <<"L", "E", "G", "I", "T", "I", "M", "A", "T", "E", "|", "0", "|", "c",
    "l", "e", "a", "n">>
ReplySpamWord ==
  <<"S", "P", "A", "M", "|", "h", "i", "g", "h", "|", "f", "l", "o", "o",
    "d">>
ReplySpamBare ==
  <<"S", "P", "A", "M">>
ReplyLow ==
  <<"l", "o", "w">>
ReplyCatchUpMany ==
  <<"T", "O", "P", "I", "C", "S", ":", " ", "h", "o", "o", "k", "s", " ",
    "|", " ", "v", "i", "t", "e", " ", "|", " ", "c", "s", "s", " ", "|",
    " ", "i", "r", "c", "\n", "D", "E", "C", "I", "S", "I", "O", "N", "S",
    ":", " ", "s", "h", "i", "p", " ", "|", " ", "w", "a", "i", "t", " ",
    "|", " ", "t", "e", "s", "t", " ", "|", " ", "d", "r", "o", "p", "\n",
    "C", "O", "D", "E", "_", "S", "N", "I", "P", "P", "E", "T", "S", ":",
    " ", "1", "\n", "S", "U", "M", "M", "A", "R", "Y", ":", " ", "b", "u",
    "s", "y">>
(* replies that carry any subset of the four labelled lines *)
CatchUpLabels == {"TOPICS", "DECISIONS", "CODE_SNIPPETS", "SUMMARY"}
LineTopics ==
  <<"T", "O", "P", "I", "C", "S", ":", " ", "h", "o", "o", "k", "s", " ",
    "|", " ", "v", "i", "t", "e", "\n">>
LineDecisions ==
  <<"D", "E", "C", "I", "S", "I", "O", "N", "S", ":", " ", "s", "h", "i",
    "p", " ", "f", "r", "i", "d", "a", "y", "\n">>
LineCodeSnippets ==
  <<"C", "O", "D", "E", "_", "S", "N", "I", "P", "P", "E", "T", "S", ":",
    " ", "2", "\n">>
LineSummary ==
  <<"S", "U", "M", "M", "A", "R", "Y", ":", " ", "s", "h", "o", "r", "t",
    "\n">>
CatchUpReply(present) ==
  (IF "TOPICS" \in present THEN LineTopics ELSE << >>)
    \o (IF "DECISIONS" \in present THEN LineDecisions ELSE << >>)
    \o (IF "CODE_SNIPPETS" \in present THEN LineCodeSnippets ELSE << >>)
    \o (IF "SUMMARY" \in present THEN LineSummary ELSE << >>)
CatchUpReplies == {CatchUpReply(present) : present \in SUBSET CatchUpLabels}
ReplyFoundFar ==
  <<"F", "O", "U", "N", "D", ":", " ", "Y", "E", "S", "\n", "M", "A", "T",
    "C", "H", "_", "I", "D", ":", " ", "Q", "7", "\n", "S", "I", "M", "I",
    "L", "A", "R", "I", "T", "Y", ":", " ", "9", "0", "\n", "S", "U", "G",
    "G", "E", "S", "T", "E", "D", "_", "A", "N", "S", "W", "E", "R", ":",
    " ", "u", "s", "e", " ", "h", "o", "o", "k", "s">>
ReplyAnalysis ==
  <<"L", "A", "N", "G", "U", "A", "G", "E", ":", " ", "j", "a", "v", "a",
    "s", "c", "r", "i", "p", "t", "\n", "P", "U", "R", "P", "O", "S", "E",
    ":", " ", "s", "e", "t", "s", " ", "x", "\n", "C", "A", "T", "E", "G",
    "O", "R", "Y", ":", " ", "e", "x", "a", "m", "p", "l", "e">>
ProviderTexts ==
  {ReplySpam, ReplySpamLow, ReplyLegit, ReplyHigh, ReplyCatchUp, ReplyFound,
   ReplyFoundFar, ReplyAnalysis, ReplyCatchUpMany, ReplySpamOver, ReplyLegitZero,
   ReplySpamWord, ReplySpamBare, ReplyLow} \cup CatchUpReplies
(* what this.client.messages.create may answer *)
ProviderAnswers == {Response(t) : t \in ProviderTexts \cup {NoText}} \cup {Rejection}
(* the answers tried on the requests of one feature: those of               *)
(* extractCodeSnippets, which come several to a call, are a classification, *)
(* a text without any label, a response without text and a rejection        *)
AnswersTo(feature) ==
  IF feature = "extractCodeSnippets"
  THEN {Response(ReplyAnalysis), Response(ReplyHigh), Response(NoText), Rejection}
  ELSE ProviderAnswers

LiveMessage(text) ==
  [from |-> "alice", to |-> "#test", message |-> text, time |-> "Date",
   type |-> "privmsg"]
MessageLists ==
  {<< >>,
   <<LiveMessage(TextHello)>>,
   <<LiveMessage(TextCode), LiveMessage(TextHello)>>,
   <<LiveMessage(TextCode), LiveMessage(TextHello), LiveMessage(TextCodeMore)>>,
   <<MockEntry("alice", "hello", "now")>>}
(* a history of 21 entries, one more than is presented to the provider *)
LongHistory ==
  [i \in 1..21 |-> [question |-> "q" \o ToString(i - 1), answer |-> "a" \o ToString(i - 1)]]
PastAnswerLists ==
  {<< >>,
   <<[question |-> "q0", answer |-> "a0"], [question |-> "q1", answer |-> "a1"]>>,
   LongHistory}
Features ==
  {"checkSpam", "summarizeMessages", "getNotificationPriority", "smartCatchUp",
   "extractCodeSnippets", "findPastAnswer"}

(* ---- the calls, as steps ---- *)
Idle == [feature |-> "none"]
(* new PhantomAI(apiKey) *)
AI_new(apiKey) ==
  /\ aiCall = Idle
  /\ aiService' = PhantomAI(apiKey)
  /\ aiResult' = [kind |-> "none"]
  /\ UNCHANGED <<aiCall, providerCalls, appVars, storeVars>>

(* the call of a feature went on to outcome: it is over, or it has made a *)
(* provider request and waits for the answer                               *)
(* aiResult also records the step that led there (the call itself, a       *)
(* response or a rejection of the provider) and the answers the provider   *)
(* has given to this call, in order                                        *)
Proceed(feature, args, outcome, after, answers) ==
  IF outcome.kind = "await"
  THEN /\ providerCalls < MaxProviderCalls
       /\ providerCalls' = providerCalls + 1
       /\ aiCall' = [feature |-> feature, args |-> args, i |-> outcome.i,
                     k |-> outcome.k, snippets |-> outcome.snippets,
                     answers |-> answers]
       /\ aiResult' = [kind |-> "pending", feature |-> feature, args |-> args,
                       after |-> after, answers |-> answers]
  ELSE /\ aiCall' = Idle
       /\ aiResult' = [kind |-> outcome.kind, feature |-> feature, args |-> args,
                       after |-> after, answers |-> answers,
                       value |-> outcome.value]
       /\ UNCHANGED providerCalls

AI_checkSpam(message, channel) ==
  /\ aiService.exists /\ aiCall = Idle
  /\ Proceed("checkSpam", [message |-> message, channel |-> channel],
             checkSpam_begin(aiService), "call", << >>)
  /\ UNCHANGED <<aiService, appVars, storeVars>>

AI_summarizeMessages(msgs, channel) ==
  /\ aiService.exists /\ aiCall = Idle
  /\ Proceed("summarizeMessages", [messages |-> msgs, channel |-> channel],
             summarizeMessages_begin(aiService, msgs), "call", << >>)
  /\ UNCHANGED <<aiService, appVars, storeVars>>

AI_getNotificationPriority(message, userNick) ==
  /\ aiService.exists /\ aiCall = Idle
  /\ Proceed("getNotificationPriority", [message |-> message, userNick |-> userNick],
             getNotificationPriority_begin(aiService, message, userNick), "call", << >>)
  /\ UNCHANGED <<aiService, appVars, storeVars>>

AI_smartCatchUp(msgs, channel) ==
  /\ aiService.exists /\ aiCall = Idle
  /\ Proceed("smartCatchUp", [messages |-> msgs, channel |-> channel],
             smartCatchUp_begin(aiService, msgs), "call", << >>)
  /\ UNCHANGED <<aiService, appVars, storeVars>>

AI_extractCodeSnippets(msgs) ==
  /\ aiService.exists /\ aiCall = Idle
  /\ Proceed("extractCodeSnippets", [messages |-> msgs],
             extractCodeSnippets_begin(aiService, msgs), "call", << >>)
  /\ UNCHANGED <<aiService, appVars, storeVars>>

AI_findPastAnswer(question, pastAnswers) ==
  /\ aiService.exists /\ aiCall = Idle
  /\ Proceed("findPastAnswer", [question |-> question, pastAnswers |-> pastAnswers],
             findPastAnswer_begin(aiService, pastAnswers), "call", << >>)
  /\ UNCHANGED <<aiService, appVars, storeVars>>

(* how the call in progress goes on when the provider has answered *)
Resume(call, response) ==
  CASE call.feature = "checkSpam" -> checkSpam_resume(response)
    [] call.feature = "summarizeMessages" -> summarizeMessages_resume(response)
    [] call.feature = "getNotificationPriority" -> getNotificationPriority_resume(response)
    [] call.feature = "smartCatchUp" -> smartCatchUp_resume(response)
    [] call.feature = "extractCodeSnippets" ->
         extractCodeSnippets_resume(response, call.args.messages, call.i, call.k,
                                    call.snippets)
    [] call.feature = "findPastAnswer" ->
         findPastAnswer_resume(response, call.args.pastAnswers)

(* this.client.messages.create resolves or rejects *)
Provider_answer(response) ==
  /\ aiCall # Idle
  /\ Proceed(aiCall.feature, aiCall.args, Resume(aiCall, response),
             IF response.ok THEN "response" ELSE "rejection",
             Append(aiCall.answers, response))
  /\ UNCHANGED <<aiService, appVars, storeVars>>

AINext ==
  \/ \E k \in ApiKeys : AI_new(k)
  \/ \E c \in Channels : AI_checkSpam(TextHello, c)
  \/ \E m \in MessageLists, c \in Channels : AI_summarizeMessages(m, c)
  \/ \E t \in {TextHello, TextMention, NoText}, n \in {NickMe, << >>} :
       AI_getNotificationPriority(t, n)
  \/ \E m \in MessageLists, c \in Channels : AI_smartCatchUp(m, c)
  \/ \E m \in MessageLists : AI_extractCodeSnippets(m)
  \/ \E l \in PastAnswerLists : AI_findPastAnswer(TextHello, l)
  \/ \E r \in AnswersTo(aiCall.feature) : Provider_answer(r)

(* the AI service and the App are followed next to the live backend *)
LiveInit == Init /\ backend = "live"
AISpec == LiveInit /\ [][AINext]_vars

(* ===================== queries of the live backend ===================== *)
MaxLimit == 3           \* largest limit passed to getMessages
(* Array.prototype.slice(start): a negative start counts from the end *)
Slice(s, start) ==
  LET from == IF start < 0
              THEN IF Len(s) + start < 0 THEN 0 ELSE Len(s) + start
              ELSE IF start > Len(s) THEN Len(s) ELSE start
  IN SubSeq(s, from + 1, Len(s))
(* getMessages(channel, limit): (this.messages[channel] || []).slice(-limit) *)
Live_getMessages(channel, limit) == Slice(getMessages(messages, channel), 0 - limit)

(* a call of getMessages(channel, limit) *)
Live_getMessagesCall(channel, limit) ==
  /\ backend = "live"
  /\ last' = [op |-> "getMessages", ch |-> channel, raised |-> "none",
              limit |-> limit, result |-> Live_getMessages(channel, limit)]
  /\ emitted' = << >>
  /\ UNCHANGED <<aiVars, appVars, backend, sessionVars, callbacks, liveVars,
                 mockVars, nextId, parted, explicitDisc, sends, inbound>>

LiveQueryNext ==
  \/ LiveNext
  \/ \E c \in Channels, l \in 0..MaxLimit : Live_getMessagesCall(c, l)

LiveQuerySpec == LiveInit /\ [][LiveQueryNext]_vars

(* ============ simulated backend with join handlers registered ========= *)
MockInit == Init /\ backend = "mock"
JoinEvents == {"onJoin"}
MockJoinNext ==
  \/ MockNext
  \/ \E e \in JoinEvents : Mock_on(e, "h1")

MockJoinSpec == MockInit /\ [][MockJoinNext]_vars

(* ========================== provider layer ============================= *)
(* detectProvider and createProvider are functions of the key alone: the   *)
(* keys are drawn from a prefix and a body, and from the values that are   *)
(* no string.                                                              *)
Alphanumerics == Lower \o Upper \o Digits
Alnum(n) == [i \in 1..n |-> Alphanumerics[((i * 7) % 62) + 1]]
KeyPrefixes ==
  {<< >>, PrefixAnthropic, PrefixGroq, PrefixGemini, PrefixOpenAIProject,
   PrefixOpenAI, <<"s", "k">>, <<"S", "K", "-">>, <<" ">>}
KeyBodies ==
  {<< >>, <<"a", "b", "c", "1", "2", "3">>, Alnum(25), Alnum(28), Alnum(29),
   Alnum(32), Alnum(31) \o <<"_">>}
NonStringKeys == {NoText, NullText, NumberText("0"), NumberText("42")}
KeyInputs == {prefix \o body : prefix \in KeyPrefixes, body \in KeyBodies}
               \cup NonStringKeys \cup {KeyUnknown}

(* a call of detectProvider(apiKey) *)
Providers_detectProvider(apiKey) ==
  /\ aiCall = Idle
  /\ LET providerType == detectProvider(apiKey)
     IN aiResult' = [kind |-> IF providerType = TypeError THEN "raise" ELSE "return",
                     feature |-> "detectProvider", args |-> [apiKey |-> apiKey],
                     after |-> "call", answers |-> << >>, value |-> providerType]
  /\ UNCHANGED <<aiService, aiCall, providerCalls, appVars, storeVars>>

(* a call of createProvider(apiKey) *)
Providers_createProvider(apiKey) ==
  /\ aiCall = Idle
  /\ aiResult' = [kind |-> IF detectProvider(apiKey) = TypeError THEN "raise"
                           ELSE "return",
                  feature |-> "createProvider", args |-> [apiKey |-> apiKey],
                  after |-> "call", answers |-> << >>,
                  value |-> createProvider(apiKey)]
  /\ UNCHANGED <<aiService, aiCall, providerCalls, appVars, storeVars>>

(* createProvider(apiKey).chat(prompt) up to its await *)
ChatKeys ==
  {PrefixAnthropic \o Alnum(3), PrefixGroq \o Alnum(3), PrefixGemini \o Alnum(3),
   Alnum(32), PrefixOpenAI \o Alnum(3)}
Providers_chat(apiKey) ==
  /\ aiCall = Idle
  /\ ~createProvider(apiKey).isNull
  /\ providerCalls < MaxProviderCalls
  /\ providerCalls' = providerCalls + 1
  /\ aiCall' = [feature |-> "chat", args |-> [provider |-> createProvider(apiKey)],
                i |-> 0, k |-> 0, snippets |-> << >>, answers |-> << >>]
  /\ aiResult' = [kind |-> "pending", feature |-> "chat",
                  args |-> [provider |-> createProvider(apiKey)],
                  after |-> "call", answers |-> << >>]
  /\ UNCHANGED <<aiService, appVars, storeVars>>

(* the vendor request of the chat in progress settles *)
Providers_chatSettles(response) ==
  /\ aiCall # Idle
  /\ aiCall.feature = "chat"
  /\ LET outcome == chat(aiCall.args.provider, response)
     IN aiResult' = [kind |-> outcome.kind, feature |-> "chat", args |-> aiCall.args,
                     after |-> IF response.ok THEN "response" ELSE "rejection",
                     answers |-> <<response>>, value |-> outcome.value]
  /\ aiCall' = Idle
  /\ UNCHANGED <<aiService, providerCalls, appVars, storeVars>>

ProvidersNext ==
  \/ \E k \in KeyInputs : Providers_detectProvider(k)
  \/ \E k \in KeyInputs : Providers_createProvider(k)
  \/ \E k \in ChatKeys : Providers_chat(k)
  \/ \E r \in {Response(ReplyHigh), Response(NoText), Rejection} : Providers_chatSettles(r)

ProvidersSpec == LiveInit /\ [][ProvidersNext]_vars

(* ================================ App ================================== *)
(* The component state that handleSendMessage reads, the handlers that    *)
(* write it, and the send path. The session store is the environment of   *)
(* this part: its events arrive as the App_on steps, the calls of         *)
(* ircClient.current.sendMessage are recorded in storeSends. Each entry   *)
(* of sendTasks is one invocation of handleSendMessage.                   *)
ReplyLegitSure ==
  <<"L", "E", "G", "I", "T", "I", "M", "A", "T", "E", "|", "9", "5", "|",
    "o", "n", " ", "t", "o", "p", "i", "c">>
NickAlice ==
  <<"a", "l", "i", "c", "e">>
KeyPadded ==
  <<" ", "s", "k", "-", "a", "n", "t", "-", "a", "b", "c", "1", "2", "3",
    " ">>
AppNicks == {NickMe, <<" ">>}
AppKeys == {KeyPadded, KeyUnknown, << >>, <<" ">>}
AppTexts == {TextHello, <<" ">>}
SpamAnswers ==
  {Response(ReplySpam), Response(ReplySpamLow), Response(ReplyLegit),
   Response(ReplyLegitSure), Response(NoText), Rejection}

(* handleConnect: the client and the AI service are made, the handlers    *)
(* registered now keep the channels and currentChannel of this render     *)
App_handleConnect(nick, aiKey) ==
  /\ IF Trim(nick) = << >>
     THEN UNCHANGED <<app, aiService>>
     ELSE /\ aiService' = IF Trim(aiKey) # << >> THEN PhantomAI(Trim(aiKey))
                          ELSE aiService
          /\ app' = [app EXCEPT
                       !.ircClient = TRUE,
                       !.nick = nick,
                       !.aiEnabled = IF Trim(aiKey) # << >> THEN TRUE ELSE @,
                       !.seen = [channels |-> app.channels,
                                 currentChannel |-> app.currentChannel]]
  /\ UNCHANGED <<aiCall, aiResult, providerCalls, sendTasks, storeSends, storeVars>>

(* the onConnect handler *)
App_onConnect ==
  /\ app.ircClient
  /\ app' = [app EXCEPT !.connected = TRUE]
  /\ UNCHANGED <<aiVars, sendTasks, storeSends, storeVars>>

(* [...new Set([...prev, channel])] *)
AddOnce(prev, channel) ==
  IF Includes(prev, channel) THEN prev ELSE Append(prev, channel)
(* the onJoin handler *)
App_onJoin(channel, joinedNick) ==
  /\ app.ircClient
  /\ IF joinedNick = app.nick
     THEN app' = [app EXCEPT !.channels = AddOnce(@, channel),
                             !.currentChannel = channel]
     ELSE UNCHANGED app
  /\ UNCHANGED <<aiVars, sendTasks, storeSends, storeVars>>

(* prev.filter(ch => ch !== channel) *)
Without(prev, channel) == SelectSeq(prev, LAMBDA ch : ch # channel)
(* the onPart handler: it compares with the currentChannel, and falls     *)
(* back to the channels, of the render that registered it                 *)
App_onPart(channel, partedNick) ==
  /\ app.ircClient
  /\ IF partedNick = app.nick
     THEN app' = [app EXCEPT
                    !.channels = Without(@, channel),
                    !.currentChannel =
                       IF app.seen.currentChannel = channel
                       THEN IF app.seen.channels # << >>
                            THEN app.seen.channels[1] ELSE NULL
                       ELSE @]
     ELSE UNCHANGED app
  /\ UNCHANGED <<aiVars, sendTasks, storeSends, storeVars>>

(* a click on a channel of the list *)
App_selectChannel(channel) ==
  /\ Includes(app.channels, channel)
  /\ app' = [app EXCEPT !.currentChannel = channel]
  /\ UNCHANGED <<aiVars, sendTasks, storeSends, storeVars>>

(* spamCheck.isSpam && spamCheck.confidence > 70 *)
NeedsConfirm_from70(spamCheck) == spamCheck.isSpam /\ spamCheck.confidence >= 70
NeedsConfirm(spamCheck) == spamCheck.isSpam /\ spamCheck.confidence > 70
(* past the check: the message goes to the store unless the prompt was    *)
(* shown and declined                                                     *)
SendAfterCheck_failClosed(spamCheck, confirmed) ==
  /\ spamCheck.reason \notin {TxtAIError, TxtAIDisabled}
  /\ NeedsConfirm(spamCheck) => confirmed
SendAfterCheck(spamCheck, confirmed) == NeedsConfirm(spamCheck) => confirmed

NoVerdict == [isSpam |-> FALSE, confidence |-> 0, reason |-> NoText]
Task(channel, text, phase, cause, spamCheck, confirmed) ==
  [channel |-> channel, text |-> text, phase |-> phase, cause |-> cause,
   spamCheck |-> spamCheck,
   prompted |-> phase = "done" /\ NeedsConfirm(spamCheck),
   confirmed |-> phase = "done" /\ NeedsConfirm(spamCheck) /\ confirmed,
   sent |-> phase = "done" /\ SendAfterCheck(spamCheck, confirmed)]
(* the rest of handleSendMessage once the verdict is there; window.confirm *)
(* answers at once                                                        *)
Finish(i, task, cause, spamCheck, confirmed) ==
  LET done == Task(task.channel, task.text, "done", cause, spamCheck, confirmed)
  IN /\ sendTasks' = IF i > Len(sendTasks) THEN Append(sendTasks, done)
                     ELSE [sendTasks EXCEPT ![i] = done]
     /\ storeSends' = IF done.sent
                      THEN Append(storeSends, [channel |-> task.channel,
                                               text |-> task.text, task |-> i])
                      ELSE storeSends

(* handleSendMessage up to its await *)
App_handleSendMessage(inputMessage, confirmed) ==
  /\ app.connected /\ app.currentChannel # NULL /\ Trim(inputMessage) # << >>
  /\ Len(sendTasks) < MaxTasks
  /\ LET i == Len(sendTasks) + 1
         task == Task(app.currentChannel, inputMessage, "checkSpam", "none",
                      NoVerdict, FALSE)
     IN IF app.aiEnabled /\ aiService.exists
        THEN LET outcome == checkSpam_begin(aiService)
             IN IF outcome.kind = "await"
                THEN /\ providerCalls < MaxProviderCalls
                     /\ providerCalls' = providerCalls + 1
                     /\ sendTasks' = Append(sendTasks, task)
                     /\ UNCHANGED storeSends
                ELSE /\ Finish(i, task, "disabled", outcome.value, confirmed)
                     /\ UNCHANGED providerCalls
        ELSE /\ Finish(i, task, "skipped", NoVerdict, confirmed)
             /\ UNCHANGED providerCalls
  /\ UNCHANGED <<app, aiService, aiCall, aiResult, storeVars>>

(* the provider answers the check of invocation i, which goes on; a check *)
(* that raised would end the invocation there                             *)
App_spamCheckSettles(i, response, confirmed) ==
  /\ i \in 1..Len(sendTasks)
  /\ sendTasks[i].phase = "checkSpam"
  /\ LET outcome == checkSpam_resume(response)
         cause == IF response.ok THEN "response" ELSE "rejection"
     IN IF outcome.kind = "return"
        THEN Finish(i, sendTasks[i], cause, outcome.value, confirmed)
        ELSE /\ sendTasks' = [sendTasks EXCEPT ![i].phase = "raised", ![i].cause = cause]
             /\ UNCHANGED storeSends
  /\ UNCHANGED <<app, aiVars, storeVars>>

AppNext ==
  \/ \E n \in AppNicks, k \in AppKeys : App_handleConnect(n, k)
  \/ App_onConnect
  \/ \E c \in Channels, n \in {NickMe, NickAlice} : App_onJoin(c, n)
  \/ \E c \in Channels, n \in {NickMe, NickAlice} : App_onPart(c, n)
  \/ \E c \in Channels : App_selectChannel(c)
  \/ \E t \in AppTexts, a \in BOOLEAN : App_handleSendMessage(t, a)
  \/ \E i \in 1..MaxTasks, r \in SpamAnswers, a \in BOOLEAN :
       App_spamCheckSettles(i, r, a)

AppSpec == LiveInit /\ [][AppNext]_vars

(* ============================== properties ============================= *)
OwnNick == IF backend = "mock" THEN currentUser ELSE clientNick
Joined(c) == Includes(channels, c)
Calls(e, kind) == {i \in 1..Len(e) : e[i].kind = kind}
MsgTarget(arg) == IF "target" \in DOMAIN arg THEN arg.target ELSE Field(arg, "to")
MessageCallsFor(e, c) == {i \in Calls(e, "onMessage") : MsgTarget(e[i].arg) = c}
NoDuplicates(s) == \A i, j \in 1..Len(s) : s[i] = s[j] => i = j
LastEntry(c) == getMessages(messages, c)[Len(getMessages(messages, c))]
(* connection attempts in flight, and transports attached and not closed *)
Attempts ==
  IF backend = "live"
  THEN (IF client = "connecting" THEN 1 ELSE 0) + stale.connecting
  ELSE timers[Timer("connect", "", 0)]
ActiveTransports ==
  IF backend = "live"
  THEN Attempts + (IF client = "registered" THEN 1 ELSE 0) + stale.registered
  ELSE Attempts

(* C1: a sendMessage made while the session is not connected raises an     *)
(* error and leaves every channel log as it was, in both backends.         *)
C1_SendWhileNotConnected ==
  [][(last'.op = "sendMessage" /\ ~connected)
       => (last'.raised = "Error" /\ messages' = messages)]_vars

C1_Witness ==
  /\ last.op = "sendMessage"
  /\ last.raised = "Error"
  /\ ~connected
  /\ explicitDisc

(* C2: a sendMessage is accepted only when the session is connected and    *)
(* the channel is joined; otherwise it raises and appends nothing.         *)
C2_SendNeedsJoinedChannel ==
  [][(last'.op = "sendMessage" /\ ~(connected /\ Joined(last'.ch)))
       => (last'.raised = "Error" /\ messages' = messages)]_vars

(* C3: when send(c, text) returns on a connected session that has joined   *)
(* c, the last entry of c's log has from = own nickname, to = c,           *)
(* message = text and type = 'own'.                                        *)
C3_OwnMessageEcho ==
  (last.op = "sendMessage" /\ last.raised = "none" /\ Joined(last.ch))
    => /\ getMessages(messages, last.ch) # << >>
       /\ Field(LastEntry(last.ch), "from") = OwnNick
       /\ Field(LastEntry(last.ch), "to") = last.ch
       /\ Field(LastEntry(last.ch), "message") \in Texts
       /\ Field(LastEntry(last.ch), "type") = "own"

(* C4: after an explicit disconnect() the session is not connected and no  *)
(* connect notification is delivered, until connect is called again.       *)
C4_StaysDisconnected ==
  explicitDisc => (~connected /\ Calls(emitted, "onConnect") = {})

(* C5: at most one transport (connection attempt or connection) is active  *)
(* for the session at any time.                                            *)
C5_OneActiveTransport == ActiveTransports <= 1

(* C6: a connect attempt of the simulated backend eventually makes the     *)
(* session connected; a successful attempt (connect timer, registered      *)
(* event) sets connected and invokes the registered connect handler        *)
(* exactly once, and nothing else invokes it; a transport error invokes    *)
(* the error handler, leaves connected as it was and starts no attempt;    *)
(* connection attempts are started by connect() only, once per call.       *)
ConnectOps == {"connectTimer", "registered"}
Count(kind) == IF callbacks[kind] # NULL THEN 1 ELSE 0
JoinOps == {"joinChannel", "autoJoinTimer", "join"}
C7_JoinIdempotent ==
  /\ []NoDuplicates(channels)
  /\ [][(last'.op \in JoinOps /\ connected /\ Joined(last'.ch))
          => (channels' = channels /\ last'.raised = "none")]_vars

C7_Witness ==
  /\ last.op \in JoinOps
  /\ Joined(last.ch)
  /\ \E c \in Channels : c # last.ch /\ Joined(c)
  /\ channels[1] = last.ch

(* C8: while connected, a part of a channel that is not joined raises      *)
(* nothing and leaves the joined list, every log and every roster as they  *)
(* were.                                                                   *)
PartOps == {"partChannel", "part"}
C8_PartNotJoined ==
  [][(last'.op \in PartOps /\ connected /\ ~Joined(last'.ch))
       => (/\ last'.raised = "none"
           /\ channels' = channels
           /\ messages' = messages
           /\ users' = users)]_vars

C8_Witness ==
  /\ last.op \in PartOps
  /\ connected
  /\ ~Joined(last.ch)
  /\ last.ch \notin parted
  /\ channels # << >>
  /\ DOMAIN users # {}

(* C9: after a part of a joined channel c, getUsers(c) is the empty list.  *)
C9_PartRemovesRoster ==
  [][\A c \in Channels :
       (last'.op \in PartOps /\ Joined(c) /\ ~Includes(channels', c))
         => getUsers(users', c) = << >>]_vars

(* C10: on the simulated backend, once c is parted and until the caller    *)
(* joins it or sends to it again, no step appends to c's log or delivers a *)
(* message notification for c.                                             *)
C10_PartStopsActivity ==
  [][\A c \in Channels :
       (backend = "mock" /\ c \in parted /\ c \in parted')
         => /\ Len(getMessages(messages', c)) <= Len(getMessages(messages, c))
            /\ MessageCallsFor(emitted', c) = {}]_vars

(* C11: joinChannel and partChannel called while the session is not       *)
(* connected raise an error to the caller and change no session state, in  *)
(* both backends.                                                          *)
C11_JoinPartWhileNotConnected ==
  [][(last'.op \in {"joinChannel", "partChannel"} /\ ~connected)
       => (/\ last'.raised = "Error"
           /\ connected' = connected
           /\ channels' = channels
           /\ messages' = messages
           /\ users' = users)]_vars

(* C12: every inbound message event (transport message, simulated reply,   *)
(* simulated random message) is appended to the log of its target channel, *)
(* creating the log if absent, whether or not a message handler is         *)
(* registered, and the entries already in the log keep their order.        *)
IsPrefix(a, b) == Len(a) <= Len(b) /\ SubSeq(b, 1, Len(a)) = a
InboundEvent(step) ==
  \/ step.op \in {"message", "replyTimer"}
  \/ step.op = "intervalTick" /\ Joined(step.ch) /\ randomMessages(step.ch) # << >>
C12_InboundAppended ==
  [][InboundEvent(last')
       => (/\ last'.raised = "none"
           /\ Len(getMessages(messages', last'.ch))
                = Len(getMessages(messages, last'.ch)) + 1
           /\ IsPrefix(getMessages(messages, last'.ch),
                       getMessages(messages', last'.ch)))]_vars

(* C13: across every step that is not a disconnect, the log of each        *)
(* channel before the step is a prefix of its log after the step.          *)
C13_LogsAppendOnly ==
  [][last'.op # "disconnect"
       => \A c \in DOMAIN messages :
            c \in DOMAIN messages' /\ IsPrefix(messages[c], messages'[c])]_vars

C13_Witness ==
  /\ last.op \in {"replyTimer", "message"}
  /\ last.raised = "none"
  /\ sends = 1
  /\ Len(getMessages(messages, last.ch)) >= 2
  /\ \E c \in DOMAIN messages : c # last.ch /\ messages[c] # << >>

(* C15: both backends deliver a message notification with the fields       *)
(* from, to, message, time, type, whose to is the target channel, and      *)
(* store log entries with those same fields.                               *)
MessageFields == {"from", "to", "message", "time", "type"}
C15_SameMessageShape ==
  /\ \A i \in Calls(emitted, "onMessage") :
       /\ DOMAIN emitted[i].arg = MessageFields
       /\ Field(emitted[i].arg, "to") = last.ch
  /\ \A c \in DOMAIN messages : \A i \in 1..Len(messages[c]) :
       DOMAIN messages[c][i] = MessageFields

(* C14: the callback table has exactly one slot per event kind; on(kind,  *)
(* h) puts h in the slot of that kind and leaves the other slots as they   *)
(* were; nothing else changes a slot; every handler invocation of a step   *)
(* calls the handler held by the slot of its kind, once.                   *)
C14_OneHandlerPerKind ==
  /\ [](/\ DOMAIN callbacks = CallbackKinds
        /\ \A k \in CallbackKinds : callbacks[k] \in Handlers \cup {NULL})
  /\ [][(last'.op = "on" /\ last'.event \in CallbackKinds)
          => callbacks' = [callbacks EXCEPT ![last'.event] = last'.handler]]_vars
  /\ [][callbacks' # callbacks => last'.op = "on"]_vars
  /\ [][\A i \in 1..Len(emitted') :
          /\ emitted'[i].handler = callbacks'[emitted'[i].kind]
          /\ emitted'[i].handler # NULL
          /\ \A j \in 1..Len(emitted') :
               emitted'[j].kind = emitted'[i].kind => j = i]_vars

C14_Witness ==
  /\ emitted # << >>
  /\ emitted[1].handler = "h2"
  /\ \E k \in CallbackKinds : callbacks[k] = "h1"

(* C18: an AI service constructed with a key that detectProvider does not *)
(* recognise is disabled, and no feature call on it makes a provider       *)
(* request.                                                                *)
C18_UnknownKeyDisabled ==
  (aiService.exists /\ detectProvider(aiService.apiKey) = NULL)
    => (~aiService.enabled /\ aiService.client = NULL /\ aiCall = Idle)

(* C19: on a service with no provider bound, a call of checkSpam,          *)
(* summarizeMessages, getNotificationPriority, smartCatchUp or             *)
(* findPastAnswer returns the fixed disabled result of that feature,       *)
(* whatever its arguments, raises nothing and makes no provider request.   *)
DisabledResult(feature) ==
  CASE feature = "checkSpam" -> SpamDisabled
    [] feature = "summarizeMessages" -> TxtSummaryDisabled
    [] feature = "getNotificationPriority" -> PriorityDisabled
    [] feature = "smartCatchUp" -> CatchUp(TxtAIDisabled)
    [] feature = "findPastAnswer" -> NotFound(0)
FeatureCallStep ==
  /\ aiService.exists
  /\ aiService' = aiService
  /\ aiCall = Idle
  /\ aiResult'.kind # "none"
  /\ aiResult'.after = "call"
C19_DisabledResults ==
  [][(FeatureCallStep /\ ~aiService.enabled
        /\ aiResult'.feature # "extractCodeSnippets")
       => (/\ aiResult'.kind = "return"
           /\ aiResult'.value = DisabledResult(aiResult'.feature)
           /\ providerCalls' = providerCalls
           /\ aiCall' = Idle)]_vars

C19_Witness ==
  /\ aiService.exists
  /\ ~aiService.enabled
  /\ aiResult.kind = "return"
  /\ aiResult.feature = "smartCatchUp"
  /\ aiResult.args.messages # << >>
  /\ providerCalls > 0

(* C20: when the provider request of a feature call rejects, the call      *)
(* returns the fallback value of its feature and raises nothing; in        *)
(* extractCodeSnippets the block gets the fallback snippet and the call    *)
(* goes on.                                                                *)
FallbackResult(feature) ==
  CASE feature = "checkSpam" -> SpamError
    [] feature = "summarizeMessages" -> TxtSummaryFailed
    [] feature = "getNotificationPriority" -> PriorityError
    [] feature = "smartCatchUp" -> CatchUp(TxtAIError)
    [] feature = "findPastAnswer" -> NotFound(0)
SnippetsSoFar(call, result) ==
  IF call # Idle THEN call.snippets ELSE result.value
C20_RejectionFallback ==
  [][(aiCall # Idle /\ aiCall' # aiCall /\ aiResult'.after = "rejection")
       => IF aiCall.feature = "extractCodeSnippets"
          THEN /\ aiResult'.kind \in {"return", "pending"}
               /\ Len(SnippetsSoFar(aiCall', aiResult')) = Len(aiCall.snippets) + 1
               /\ LET snippet == SnippetsSoFar(aiCall', aiResult')[Len(aiCall.snippets) + 1]
                  IN snippet.category = TxtGeneral /\ snippet.context = TxtCodeSnippet
          ELSE /\ aiResult'.kind = "return"
               /\ aiResult'.value = FallbackResult(aiCall.feature)]_vars

C20_Witness ==
  /\ aiResult.kind = "return"
  /\ aiResult.after = "rejection"
  /\ aiResult.feature = "extractCodeSnippets"
  /\ Len(aiResult.value) = 2
  /\ aiResult.value[1].category # TxtGeneral
  /\ aiResult.value[2].category = TxtGeneral

(* C16: an invocation of handleSendMessage whose spam check came back    *)
(* because AI is disabled, or because the provider request failed, has     *)
(* shown no prompt and has handed its message to sendMessage of the store. *)
CheckFailed(task) ==
  \/ task.cause \in {"disabled", "rejection"}
  \/ task.spamCheck \in {SpamDisabled, SpamError}
HandedToStore(i) ==
  \E j \in 1..Len(storeSends) :
    /\ storeSends[j].task = i
    /\ storeSends[j].channel = sendTasks[i].channel
    /\ storeSends[j].text = sendTasks[i].text
C16_SendFailsOpen ==
  \A i \in 1..Len(sendTasks) :
    (sendTasks[i].phase # "checkSpam" /\ CheckFailed(sendTasks[i]))
      => (/\ sendTasks[i].phase = "done"
          /\ ~sendTasks[i].prompted
          /\ HandedToStore(i))

C16_Witness ==
  \E i \in 1..Len(sendTasks) :
    /\ sendTasks[i].phase = "done"
    /\ sendTasks[i].cause = "rejection"
    /\ sendTasks[i].spamCheck = SpamError
    /\ HandedToStore(i)

(* C17: an invocation whose check gave a verdict of spam with confidence   *)
(* above 70 shows the prompt and sends exactly when the user confirms;     *)
(* with any other verdict it shows no prompt and sends.                    *)
C17_ConfirmAbove70 ==
  \A i \in 1..Len(sendTasks) :
    (sendTasks[i].phase # "checkSpam" /\ sendTasks[i].cause = "response")
      => LET task == sendTasks[i]
         IN /\ task.phase = "done"
            /\ IF task.spamCheck.isSpam /\ task.spamCheck.confidence > 70
               THEN task.prompted /\ (HandedToStore(i) <=> task.confirmed)
               ELSE ~task.prompted /\ HandedToStore(i)

C17_Witness ==
  \E i, j \in 1..Len(sendTasks) :
    /\ sendTasks[i].phase = "done" /\ sendTasks[i].cause = "response"
    /\ sendTasks[i].spamCheck.isSpam /\ sendTasks[i].spamCheck.confidence = 95
    /\ sendTasks[i].prompted /\ ~sendTasks[i].confirmed /\ ~HandedToStore(i)
    /\ sendTasks[j].phase = "done" /\ sendTasks[j].cause = "response"
    /\ sendTasks[j].spamCheck.isSpam /\ sendTasks[j].spamCheck.confidence = 70
    /\ ~sendTasks[j].prompted /\ HandedToStore(j)

(* C21: with a provider bound, extractCodeSnippets returns one snippet for *)
(* each fenced block of the messages, in the order of the messages and     *)
(* then of the blocks; the snippet of a block whose classification request *)
(* rejected has category 'general' and context 'Code snippet', every other *)
(* snippet has the classification of its own answer.                       *)
RECURSIVE BlocksOf(_, _)
BlocksOf(msgs, i) ==
  IF i > Len(msgs) THEN << >>
  ELSE LET found == FencedBlocks(msgs[i].message, 1)
       IN [k \in 1..Len(found) |-> [from |-> msgs[i].from, code |-> Trim(found[k].body)]]
            \o BlocksOf(msgs, i + 1)
WellFormed(msgs) == \A i \in 1..Len(msgs) : IsString(TextField(msgs[i], "message"))
CategoryExample ==
  <<"e", "x", "a", "m", "p", "l", "e">>
PurposeSetsX ==
  <<"s", "e", "t", "s", " ", "x">>
C21_OneSnippetPerBlock ==
  (/\ aiResult.kind \in {"return", "raise"}
   /\ aiResult.feature = "extractCodeSnippets"
   /\ aiService.enabled
   /\ WellFormed(aiResult.args.messages))
    => /\ aiResult.kind = "return"
       /\ LET blocks == BlocksOf(aiResult.args.messages, 1)
              snippets == aiResult.value
              answers == aiResult.answers
          IN /\ Len(snippets) = Len(blocks)
             /\ Len(answers) = Len(blocks)
             /\ \A k \in 1..Len(blocks) :
                  /\ snippets[k].code = blocks[k].code
                  /\ snippets[k].author = blocks[k].from
                  /\ ~answers[k].ok
                       => /\ snippets[k].category = TxtGeneral
                          /\ snippets[k].context = TxtCodeSnippet
                  /\ answers[k] = Response(ReplyAnalysis)
                       => /\ snippets[k].category = CategoryExample
                          /\ snippets[k].context = PurposeSetsX

C21_Witness ==
  /\ aiResult.kind = "return"
  /\ aiResult.feature = "extractCodeSnippets"
  /\ Len(aiResult.value) = 3
  /\ aiResult.answers = <<Response(ReplyAnalysis), Rejection, Response(ReplyAnalysis)>>
  /\ aiResult.value[1].category = CategoryExample
  /\ aiResult.value[2].category = TxtGeneral
  /\ aiResult.value[3].category = CategoryExample
  /\ aiResult.value[3].code = <<"z", " ", "=", " ", "2">>

(* C22: findPastAnswer reports foundAnswer = true only when the reply says *)
(* FOUND: YES, its index names an entry of the history and the suggested   *)
(* answer is not 'none'; otherwise it reports foundAnswer = false and      *)
(* raises nothing.                                                         *)
C22_FoundOnlyIfResolved ==
  (aiResult.kind \in {"return", "raise"} /\ aiResult.feature = "findPastAnswer")
    => /\ aiResult.kind = "return"
       /\ aiResult.value.foundAnswer
            => /\ aiResult.after = "response"
               /\ FoundYes(Trim(aiResult.answers[1].text))
               /\ aiResult.value.answer # TxtNone
               /\ aiResult.value.original # UndefinedEntry
               /\ Includes(aiResult.args.pastAnswers, aiResult.value.original)

(* C23: whatever the provider replies, smartCatchUp returns at most three  *)
(* topics and at most three decisions.                                     *)
C23_AtMostThree ==
  (aiResult.kind = "return" /\ aiResult.feature = "smartCatchUp")
    => /\ Len(aiResult.value.topics) <= 3
       /\ Len(aiResult.value.keyDecisions) <= 3

(* C24: for each subset of the labels TOPICS, DECISIONS, CODE_SNIPPETS and *)
(* SUMMARY carried by the reply, smartCatchUp returns every field whose    *)
(* label is there as parsed from its line, and every other field with its  *)
(* own default: no topics, no decisions, 0, 'No summary available'.        *)
C24_FieldsIndependent ==
  \A present \in SUBSET CatchUpLabels :
    (/\ aiResult.kind \in {"return", "raise"}
     /\ aiResult.feature = "smartCatchUp"
     /\ aiResult.after = "response"
     /\ aiResult.answers[1] = Response(CatchUpReply(present)))
      => /\ aiResult.kind = "return"
         /\ aiResult.value.topics =
              IF "TOPICS" \in present
              THEN << <<"h", "o", "o", "k", "s">>, <<"v", "i", "t", "e">> >> ELSE << >>
         /\ aiResult.value.keyDecisions =
              IF "DECISIONS" \in present
              THEN << <<"s", "h", "i", "p", " ", "f", "r", "i", "d", "a", "y">> >>
              ELSE << >>
         /\ aiResult.value.codeShared = IF "CODE_SNIPPETS" \in present THEN 2 ELSE 0
         /\ aiResult.value.summary =
              IF "SUMMARY" \in present THEN <<"s", "h", "o", "r", "t">> ELSE TxtNoSummary

C24_Witness ==
  /\ aiResult.kind = "return"
  /\ aiResult.feature = "smartCatchUp"
  /\ aiResult.after = "response"
  /\ aiResult.answers[1] = Response(CatchUpReply({"TOPICS", "SUMMARY"}))
  /\ Len(aiResult.value.topics) = 2
  /\ aiResult.value.keyDecisions = << >>
  /\ aiResult.value.summary = <<"s", "h", "o", "r", "t">>

(* C25: whatever the provider replies, and when the request fails, the    *)
(* confidence returned by checkSpam is an integer from 0 to 100.           *)
C25_ConfidenceInRange ==
  (aiResult.kind = "return" /\ aiResult.feature = "checkSpam")
    => aiResult.value.confidence \in 0..100

(* C26: checkSpam returns the number its reply gives as confidence, 0      *)
(* included, and returns 50 only when the reply has no confidence field or *)
(* one that does not parse to a number.                                    *)
ConfidenceField(text) ==
  LET parts == Split(Trim(text), "|")
  IN IF Len(parts) >= 2 THEN Trim(parts[2]) ELSE NoText
C26_DefaultOnlyIfUnparseable ==
  (/\ aiResult.kind = "return"
   /\ aiResult.feature = "checkSpam"
   /\ aiResult.after = "response"
   /\ IsString(aiResult.answers[1].text))
    => LET field == ConfidenceField(aiResult.answers[1].text)
       IN aiResult.value.confidence =
            IF ParseIntIsNaN(field) THEN 50 ELSE ParseInt(field)

(* C27: getNotificationPriority always returns high, medium or low; a      *)
(* reply that is none of the three, and a failed request, give medium;     *)
(* with a provider bound, a message that contains the own nickname in any  *)
(* letter case gives high without a provider request.                      *)
Mentions(message, userNick) ==
  \E i \in 1..(Len(message) + 1) :
    /\ i + Len(userNick) - 1 <= Len(message)
    /\ ToLowerCase(SubSeq(message, i, i + Len(userNick) - 1)) = ToLowerCase(userNick)
C27_PriorityInSet ==
  (aiResult.kind \in {"return", "raise"} /\ aiResult.feature = "getNotificationPriority")
    => /\ aiResult.kind = "return"
       /\ aiResult.value.priority \in {TxtHigh, TxtMedium, TxtLow}
       /\ aiResult.after = "rejection" => aiResult.value.priority = TxtMedium
       /\ (/\ aiResult.after = "response"
           /\ IsString(aiResult.answers[1].text)
           /\ ToLowerCase(Trim(aiResult.answers[1].text)) \notin {TxtHigh, TxtMedium, TxtLow})
            => aiResult.value.priority = TxtMedium
       /\ (/\ aiService.enabled
           /\ IsString(aiResult.args.message)
           /\ IsString(aiResult.args.userNick)
           /\ Mentions(aiResult.args.message, aiResult.args.userNick))
            => /\ aiResult.after = "call"
               /\ aiResult.answers = << >>
               /\ aiResult.value.priority = TxtHigh

C27_Witness ==
  /\ aiResult.kind = "return"
  /\ aiResult.feature = "getNotificationPriority"
  /\ aiService.enabled
  /\ aiResult.args.message = TextMention
  /\ aiResult.args.userNick = NickMe
  /\ aiResult.after = "call"
  /\ aiResult.value.priority = TxtHigh
  /\ providerCalls = 0

(* C28: detectProvider returns one of the five vendor names or null for   *)
(* every value it is given, a string or not, and throws for none.          *)
Vendors == {"anthropic", "groq", "gemini", "mistral", "openai"}
C28_DetectTotal ==
  aiResult.kind # "none" /\ aiResult.feature = "detectProvider"
    => /\ aiResult.kind = "return"
       /\ aiResult.value \in Vendors \cup {NULL}
       /\ ~IsString(aiResult.args.apiKey) => aiResult.value = NULL

C28_Witness ==
  /\ aiResult.kind = "return"
  /\ aiResult.feature = "detectProvider"
  /\ aiResult.args.apiKey = NumberText("42")
  /\ aiResult.value = NULL

(* C29: detectProvider gives a key the vendor of the first rule it         *)
(* matches, in the order: prefix sk-ant-, prefix gsk_, prefix AIza, 32     *)
(* alphanumeric characters, prefix sk-; and null when it matches none.     *)
RuleVendor == <<"anthropic", "groq", "gemini", "mistral", "openai">>
RuleMatches(rule, key) ==
  CASE rule = 1 -> Len(key) >= 7 /\ SubSeq(key, 1, 7) = <<"s", "k", "-", "a", "n", "t", "-">>
    [] rule = 2 -> Len(key) >= 4 /\ SubSeq(key, 1, 4) = <<"g", "s", "k", "_">>
    [] rule = 3 -> Len(key) >= 4 /\ SubSeq(key, 1, 4) = <<"A", "I", "z", "a">>
    [] rule = 4 -> Len(key) = 32 /\ \A i \in 1..32 : IsAlphanumeric(key[i])
    [] rule = 5 -> Len(key) >= 3 /\ SubSeq(key, 1, 3) = <<"s", "k", "-">>
C29_FirstRuleWins ==
  (/\ aiResult.kind # "none"
   /\ aiResult.feature = "detectProvider"
   /\ IsString(aiResult.args.apiKey))
    => LET key == aiResult.args.apiKey
           hits == {rule \in 1..5 : RuleMatches(rule, key)}
       IN aiResult.value =
            IF hits = {} THEN NULL
            ELSE RuleVendor[CHOOSE rule \in hits : \A other \in hits : rule <= other]

C29_Witness ==
  /\ aiResult.kind = "return"
  /\ aiResult.feature = "detectProvider"
  /\ IsString(aiResult.args.apiKey)
  /\ RuleMatches(3, aiResult.args.apiKey)
  /\ RuleMatches(4, aiResult.args.apiKey)
  /\ aiResult.value = "gemini"

(* C30: createProvider(key) returns null exactly when detectProvider(key)  *)
(* returns null, and otherwise an adapter whose getName() is               *)
(* detectProvider(key).                                                    *)
C30_CreateMatchesDetect ==
  aiResult.kind # "none" /\ aiResult.feature = "createProvider"
    => /\ aiResult.kind = "return"
       /\ aiResult.value.isNull <=> detectProvider(aiResult.args.apiKey) = NULL
       /\ ~aiResult.value.isNull
            => getName(aiResult.value) = detectProvider(aiResult.args.apiKey)

C30_Witness ==
  /\ aiResult.kind = "return"
  /\ aiResult.feature = "createProvider"
  /\ ~aiResult.value.isNull
  /\ getName(aiResult.value) = "groq"
  /\ aiResult.value.apiKey = aiResult.args.apiKey

(* C31: when the vendor request of an adapter's chat fails, chat rejects   *)
(* with a ProviderError that carries the vendor name of the adapter and    *)
(* the failure of the request as its cause.                                *)
C31_ChatRejectsTyped ==
  (/\ aiResult.kind \in {"return", "raise"}
   /\ aiResult.feature = "chat"
   /\ aiResult.after = "rejection")
    => /\ aiResult.kind = "raise"
       /\ aiResult.value.name = "ProviderError"
       /\ aiResult.value.vendor = getName(aiResult.args.provider)
       /\ aiResult.value.cause = VendorFailure

(* C32: when the history has more than 20 entries and findPastAnswer      *)
(* accepts a match, the entry it returns as original is the one that was   *)
(* presented to the provider under the index of the reply, that is the     *)
(* entry at that index among the last 20.                                  *)
C32_OriginalIsPresentedEntry ==
  (/\ aiResult.kind = "return"
   /\ aiResult.feature = "findPastAnswer"
   /\ aiResult.value.foundAnswer
   /\ Len(aiResult.args.pastAnswers) > 20)
    => LET presented == LastTwenty(aiResult.args.pastAnswers)
           matchId == ParseInt(MatchDigits(Trim(aiResult.answers[1].text), LblMatchId))
       IN /\ matchId + 1 \in 1..Len(presented)
          /\ aiResult.value.original = presented[matchId + 1]

(* C33: for a sendMessage(channel, text) that succeeds, the simulated      *)
(* backend calls the message handler for the own message exactly when the  *)
(* live backend does.                                                      *)
C33_SendNotifiesAlike ==
  connected =>
    \A c \in Channels, x \in Texts :
      (Mock_sendNotifications(c, x) = << >>) <=> (Live_sendNotifications(c, x) = << >>)

(* C34: on the live backend getMessages(channel, limit) returns, for every *)
(* limit from 0 up, the last limit messages of the log in log order, all   *)
(* of them when there are fewer, and the empty list when there is no log.  *)
C34_GetMessagesLimit ==
  last.op = "getMessages"
    => LET log == getMessages(messages, last.ch)
           kept == IF last.limit < Len(log) THEN last.limit ELSE Len(log)
       IN /\ Len(last.result) <= last.limit
          /\ last.result = SubSeq(log, Len(log) - kept + 1, Len(log))
          /\ last.ch \notin DOMAIN messages => last.result = << >>

(* C35: on the simulated backend at most one message generator runs per    *)
(* channel at any time.                                                    *)
C35_OneGeneratorPerChannel ==
  backend = "mock" => \A c \in Channels : timers[Timer("interval", c, 0)] <= 1

(* C36: every timer callback of the simulated backend (connect, auto-join, *)
(* join notification, simulated reply, periodic generator) completes       *)
(* without raising.                                                        *)
TimerCallbacks ==
  {"connectTimer", "autoJoinTimer", "joinTimer", "replyTimer", "intervalTick"}
C36_TimerCallbacksComplete ==
  (backend = "mock" /\ last.op \in TimerCallbacks) => last.raised = "none"

(* C37: on the simulated backend the join notification for c, and the      *)
(* user-list notification that follows it, are delivered only while the    *)
(* session is connected and c is joined.                                   *)
C37_JoinNotifiedWhileJoined ==
  (backend = "mock" /\ last.op = "joinTimer" /\ emitted # << >>)
    => (connected /\ Joined(last.ch))

(* C38: in both backends, whenever the session is not connected the        *)
(* joined-channel set is empty.                                            *)
C38_NotConnectedNoChannels == ~connected => channels = << >>

(* C39: with AI enabled, two messages submitted to the same channel reach  *)
(* the store's sendMessage in the order of their submission, whatever      *)
(* order their spam checks complete in.                                    *)
C39_SendsInSubmissionOrder ==
  \A j, k \in 1..Len(storeSends) :
    (j < k /\ storeSends[j].channel = storeSends[k].channel)
      => storeSends[j].task < storeSends[k].task

(* C40: an invocation of handleSendMessage whose spam check was pending    *)
(* calls the store's sendMessage only while the target channel is still in *)
(* the joined list.                                                        *)
C40_SendsWhileStillJoined ==
  [][\A i \in 1..Len(sendTasks) :
       (sendTasks[i].phase = "checkSpam" /\ sendTasks'[i].phase = "done"
          /\ sendTasks'[i].sent)
         => Includes(app.channels, sendTasks[i].channel)]_vars

====
